---- MODULE Spec2Model ----
(***************************************************************************)
(* Evaluation engine of rag-toolkit: the score model                       *)
(* (sdk/evaluator/models.py), the composite scorer                         *)
(* (sdk/evaluator/scorer.py), the background evaluation sweeper           *)
(* (api/main.py, api/crud.py) and the rate limiting middleware             *)
(* (api/rate_limiter.py).                                                  *)
(*                                                                         *)
(* Numbers.  A score is a float in [0,1] in the source; here it is an      *)
(* integer number of hundredths (ScoreUnit = 1.0).  A normalised weight    *)
(* w / total_weight is an integer number of 1/120 (NormUnit = 1.0; every   *)
(* total of the weights 0.4, 0.4, 0.2 divides 120 tenths).  overall_score  *)
(* is therefore in units of 1/(ScoreUnit * NormUnit), and the arithmetic   *)
(* is exact (binary floating-point rounding is not modelled).              *)
(*                                                                         *)
(* Identity.  A trace is identified by (tenant_id, trace_id) as in         *)
(* TraceCRUD.update_trace_scores; trace ids are unique except under        *)
(* DuplicateSpec.                                                          *)
(***************************************************************************)
EXTENDS Integers, Sequences, FiniteSets, TLC

VARIABLES
    sc_pc,         \* CompositeScorer.score: "ready", "gathering", "returned", "raised"
    sc_task,       \* per scorer: Pending, its ScoreResult, or Raised
    sc_composite,  \* the CompositeScore the call returned (None before)
    traces,        \* the traces table: trace id -> row
    evaluations,   \* the evaluations table, in insertion order
    sw,            \* per sweeper task: its position and locals
    faults,        \* how many persistence calls have raised so far
    call,          \* the latest call of one scorer: its inputs, the service's
                   \* reply and what the call returned
    mw             \* the RateLimitMiddleware: its limiters, the clock it reads
                   \* and the response to the latest request

scorer_vars == <<sc_pc, sc_task, sc_composite>>
sweeper_vars == <<traces, evaluations, sw, faults>>
vars == <<sc_pc, sc_task, sc_composite, traces, evaluations, sw, faults, call, mw>>

(***************************************************************************)
(* Score model: sdk/evaluator/models.py                                    *)
(***************************************************************************)

\* score = 1.0 in hundredths (models.py: "score: float  # 0.0 to 1.0")
ScoreUnit == 100

\* a normalised weight of 1.0 (models.py: weights = [w / total_weight ...])
NormUnit == 120

\* weights of calculate_overall, in tenths
SafetyWeight == 4
GroundingWeight == 4
HelpfulnessWeight == 2

\* traffic-light thresholds, in tenths
GreenThreshold == 8
AmberThreshold == 5

Axes == {"grounding", "helpfulness", "safety"}

\* Optional[ScoreResult] = None
None == [kind |-> "None"]

\* what asyncio.gather(return_exceptions=True) hands back for a scorer that raised
Raised == [kind |-> "Exception"]

\* ScoreResult(score_type, score), confidence left at its default 1.0
ScoreResult(t, s) == [kind |-> t, score |-> s, confidence |-> ScoreUnit]

\* "if self.safety:" -- a ScoreResult defines neither __bool__ nor __len__,
\* so the test is "is not None"
Present(r) == r.kind \notin {"None"}

\* ScoreResult.traffic_light
traffic_light(r) ==
    IF r.score * 10 >= GreenThreshold * ScoreUnit THEN "green"
    ELSE IF r.score * 10 >= AmberThreshold * ScoreUnit THEN "amber"
    ELSE "red"

RECURSIVE SumSeq(_)
SumSeq(q) == IF q = <<>> THEN 0 ELSE Head(q) + SumSeq(Tail(q))

\* sum(s * w for s, w in zip(scores, weights)): zip stops at the shorter list
RECURSIVE ZipDot(_, _)
ZipDot(ss, ws) ==
    IF ss = <<>> \/ ws = <<>> THEN 0
    ELSE Head(ss) * Head(ws) + ZipDot(Tail(ss), Tail(ws))

\* the list "scores" of calculate_overall, in the order it is appended
ScoresList(c) ==
    (IF Present(c.safety) THEN <<c.safety.score>> ELSE <<>>)
    \o (IF Present(c.grounding) THEN <<c.grounding.score>> ELSE <<>>)
    \o (IF Present(c.helpfulness) THEN <<c.helpfulness.score>> ELSE <<>>)

\* a mispairing bug: the weights appended in another order than the scores
WeightsList_swapped(c) ==
    (IF Present(c.helpfulness) THEN <<HelpfulnessWeight>> ELSE <<>>)
    \o (IF Present(c.safety) THEN <<SafetyWeight>> ELSE <<>>)
    \o (IF Present(c.grounding) THEN <<GroundingWeight>> ELSE <<>>)

\* the list "weights" of calculate_overall, in the order it is appended
WeightsList(c) ==
    (IF Present(c.safety) THEN <<SafetyWeight>> ELSE <<>>)
    \o (IF Present(c.grounding) THEN <<GroundingWeight>> ELSE <<>>)
    \o (IF Present(c.helpfulness) THEN <<HelpfulnessWeight>> ELSE <<>>)

\* weights = [w / total_weight for w in weights]
Normalize(ws) == [i \in 1..Len(ws) |-> (ws[i] * NormUnit) \div SumSeq(ws)]

\* an override bug: only the safety axis raises the red flag
HasRedFlag_safety_only(c) ==
    Present(c.safety) /\ traffic_light(c.safety) = "red"

\* has_red_flag of calculate_overall
HasRedFlag(c) ==
    \/ Present(c.safety) /\ traffic_light(c.safety) = "red"
    \/ Present(c.grounding) /\ traffic_light(c.grounding) = "red"

\* a threshold bug: green needs a score above 0.8, not 0.8 itself
calculate_overall_strict(c) ==
    LET scores == ScoresList(c)
        weights == WeightsList(c)
    IN IF scores = <<>>
       THEN [c EXCEPT !.overall_score = 0, !.overall_traffic_light = "red"]
       ELSE LET overall ==
                    IF SumSeq(weights) > 0
                    THEN ZipDot(scores, Normalize(weights))
                    ELSE (SumSeq(scores) * NormUnit) \div Len(scores)
                light ==
                    IF HasRedFlag(c) THEN "red"
                    ELSE IF overall * 10 > GreenThreshold * ScoreUnit * NormUnit
                         THEN "green"
                    ELSE IF overall * 10 >= AmberThreshold * ScoreUnit * NormUnit
                         THEN "amber"
                    ELSE "red"
            IN [c EXCEPT !.overall_score = overall,
                         !.overall_traffic_light = light]

\* a default bug: without any sub-result the score is the neutral 0.5, amber
calculate_overall_neutral(c) ==
    LET scores == ScoresList(c)
        weights == WeightsList(c)
    IN IF scores = <<>>
       THEN [c EXCEPT !.overall_score = (ScoreUnit * NormUnit) \div 2,
                      !.overall_traffic_light = "amber"]
       ELSE LET overall ==
                    IF SumSeq(weights) > 0
                    THEN ZipDot(scores, Normalize(weights))
                    ELSE (SumSeq(scores) * NormUnit) \div Len(scores)
                light ==
                    IF HasRedFlag(c) THEN "red"
                    ELSE IF overall * 10 >= GreenThreshold * ScoreUnit * NormUnit
                         THEN "green"
                    ELSE IF overall * 10 >= AmberThreshold * ScoreUnit * NormUnit
                         THEN "amber"
                    ELSE "red"
            IN [c EXCEPT !.overall_score = overall,
                         !.overall_traffic_light = light]

\* an accumulation bug: the weighted average is added to the stored score
calculate_overall_accumulate(c) ==
    LET scores == ScoresList(c)
        weights == WeightsList(c)
    IN IF scores = <<>>
       THEN [c EXCEPT !.overall_score = 0, !.overall_traffic_light = "red"]
       ELSE LET overall ==
                    IF SumSeq(weights) > 0
                    THEN ZipDot(scores, Normalize(weights))
                    ELSE (SumSeq(scores) * NormUnit) \div Len(scores)
                light ==
                    IF HasRedFlag(c) THEN "red"
                    ELSE IF overall * 10 >= GreenThreshold * ScoreUnit * NormUnit
                         THEN "green"
                    ELSE IF overall * 10 >= AmberThreshold * ScoreUnit * NormUnit
                         THEN "amber"
                    ELSE "red"
            IN [c EXCEPT !.overall_score = c.overall_score + overall,
                         !.overall_traffic_light = light]

\* CompositeScore.calculate_overall: c holds the three sub-results; the result
\* is c with overall_score and overall_traffic_light set
calculate_overall(c) ==
    LET scores == ScoresList(c)
        weights == WeightsList(c)
    IN IF scores = <<>>
       THEN [c EXCEPT !.overall_score = 0, !.overall_traffic_light = "red"]
       ELSE LET overall ==
                    IF SumSeq(weights) > 0
                    THEN ZipDot(scores, Normalize(weights))
                    ELSE (SumSeq(scores) * NormUnit) \div Len(scores)
                light ==
                    IF HasRedFlag(c) THEN "red"
                    ELSE IF overall * 10 >= GreenThreshold * ScoreUnit * NormUnit
                         THEN "green"
                    ELSE IF overall * 10 >= AmberThreshold * ScoreUnit * NormUnit
                         THEN "amber"
                    ELSE "red"
            IN [c EXCEPT !.overall_score = overall,
                         !.overall_traffic_light = light]

\* CompositeScore(grounding=..., helpfulness=..., safety=...) with the
\* dataclass defaults overall_score = 0.0, overall_traffic_light = RED
CompositeScore(g, h, s) ==
    [grounding |-> g, helpfulness |-> h, safety |-> s,
     overall_score |-> 0, overall_traffic_light |-> "red"]

(***************************************************************************)
(* Composite scorer: sdk/evaluator/scorer.py                               *)
(***************************************************************************)

\* "if isinstance(x_result, Exception): x_result = None"
HandleException(r) == IF r = Raised THEN None ELSE r

\* the tail of CompositeScorer.score, after gather has returned res
\* (res[a] is scorer a's ScoreResult or the exception it raised)
CompositeOf(res) ==
    calculate_overall(CompositeScore(HandleException(res["grounding"]),
                                     HandleException(res["helpfulness"]),
                                     HandleException(res["safety"])))

\* scores a scorer may return, in hundredths: both sides of 0.5 and of 0.8
Scores == {0, 40, 50, 60, 80, 90, 95, 100}

\* a scorer coroutine gather has not finished yet
Pending == [kind |-> "Pending"]

\* no scorer has been called on its own
NoCall == [scorer |-> "none"]

\* ---- the rate limiting middleware (api/rate_limiter.py) ------------------
\* Time is counted in ticks of 1/TicksPerSecond second and a token count in
\* 1/TicksPerSecond token, so that tokens + time_passed * rate is exact.

\* ticks of the clock in one second
TicksPerSecond == 3

\* the clock is followed up to this tick
MaxTime == 3

\* requests per second of every limiter (the application is built with 200)
default_rate == 2

\* one token, in the unit of the token counts
Token == TicksPerSecond

\* a value that is false in a condition: None, or the empty string
Absent == ""

\* the burst argument left out (None)
NoBurst == 0

\* TokenBucketRateLimiter(rate, burst) constructed when the clock shows now
TokenBucketRateLimiter(rate, burst, now) ==
    LET b == IF burst # NoBurst THEN burst ELSE rate
    IN [rate |-> rate, burst |-> b, tokens |-> b * Token, last_update |-> now]

\* a retry_after of num/den seconds
Seconds(num, den) == [num |-> num, den |-> den]

\* allow_request() when time.time() returns now: the limiter afterwards and
\* the pair (allowed, retry_after) returned
allow_request(l, now) ==
    LET refilled == l.tokens + (now - l.last_update) * l.rate
        tokens == IF l.burst * Token < refilled THEN l.burst * Token ELSE refilled
    IN IF tokens >= Token
       THEN [limiter |-> [l EXCEPT !.tokens = tokens - Token, !.last_update = now],
             allowed |-> TRUE, retry_after |-> Seconds(0, 1)]
       ELSE [limiter |-> [l EXCEPT !.tokens = tokens, !.last_update = now],
             allowed |-> FALSE,
             retry_after |-> Seconds(Token - tokens, Token * l.rate)]

\* no request has been answered yet
NoResponse == [status |-> "none"]

\* RateLimitMiddleware(app, default_rate, default_burst): default_burst is
\* stored and not handed to a limiter; the clock starts at 0
RateLimitMiddleware(rate, burst) ==
    [default_rate |-> rate,
     default_burst |-> (IF burst # NoBurst THEN burst ELSE rate),
     tenant_limiters |-> <<>>,
     global_limiter |-> TokenBucketRateLimiter(rate, rate, 0),
     clock |-> 0,
     response |-> NoResponse]

\* what a scorer's coroutine can end with: a ScoreResult of its kind, or an exception
Outcomes(a) == {ScoreResult(a, s) : s \in Scores} \cup {Raised}

\* score(): the three coroutines are created and handed to asyncio.gather
ScoreCall ==
    /\ sc_pc = "ready"
    /\ sc_pc' = "gathering"
    /\ sc_task' = [a \in Axes |-> Pending]
    /\ sc_composite' = None
    /\ UNCHANGED sweeper_vars
    /\ UNCHANGED <<call, mw>>

\* one scorer's coroutine runs to its end, in any order relative to the others
ScorerFinish(a) ==
    /\ sc_pc = "gathering"
    /\ sc_task[a] = Pending
    /\ \E o \in Outcomes(a) : sc_task' = [sc_task EXCEPT ![a] = o]
    /\ UNCHANGED <<sc_pc, sc_composite>>
    /\ UNCHANGED sweeper_vars
    /\ UNCHANGED <<call, mw>>

\* gather without return_exceptions: the first exception is raised to the caller
\* at once, whatever the other coroutines are doing
GatherReturn_propagate ==
    /\ sc_pc = "gathering"
    /\ \/ /\ \E a \in Axes : sc_task[a] = Raised
          /\ sc_pc' = "raised"
          /\ UNCHANGED sc_composite
       \/ /\ \A a \in Axes : sc_task[a] \notin {Pending, Raised}
          /\ sc_pc' = "returned"
          /\ sc_composite' = CompositeOf(sc_task)
    /\ UNCHANGED sc_task
    /\ UNCHANGED sweeper_vars
    /\ UNCHANGED <<call, mw>>

\* gather(..., return_exceptions=True) returns once all three are done; then
\* the exceptions become None, the CompositeScore is built and finalized
GatherReturn ==
    /\ sc_pc = "gathering"
    /\ \A a \in Axes : sc_task[a] # Pending
    /\ sc_pc' = "returned"
    /\ sc_composite' = CompositeOf(sc_task)
    /\ UNCHANGED sc_task
    /\ UNCHANGED sweeper_vars
    /\ UNCHANGED <<call, mw>>

\* the caller takes the result; the scorer object is ready for the next call
ScoreTaken ==
    /\ sc_pc = "returned"
    /\ sc_pc' = "ready"
    /\ UNCHANGED <<sc_task, sc_composite>>
    /\ UNCHANGED sweeper_vars
    /\ UNCHANGED <<call, mw>>

\* a CompositeScorer after construction; no sweeper task exists
ScorerInit ==
    /\ sc_pc = "ready"
    /\ sc_task = [a \in Axes |-> Pending]
    /\ sc_composite = None
    /\ traces = <<>>
    /\ evaluations = <<>>
    /\ sw = <<>>
    /\ faults = 0
    /\ call = NoCall
    /\ mw = RateLimitMiddleware(default_rate, NoBurst)

ScorerNext ==
    \/ ScoreCall
    \/ \E a \in Axes : ScorerFinish(a)
    \/ GatherReturn
    \/ ScoreTaken

\* one CompositeScorer, called over and over with every combination of
\* scorer outcomes
ScorerSpec == ScorerInit /\ [][ScorerNext]_vars

(***************************************************************************)
(* The three scorers: sdk/evaluator/scorer.py                              *)
(*                                                                         *)
(* Texts are modelled by what the scorers read of them.  A dict of a JSON  *)
(* reply is a record that lists its keys in the field "keys".              *)
(***************************************************************************)

\* bounds of the scorer inputs
MaxWords == 4
MaxContent == 2
MaxText == 3
MaxCitations == 2

\* ScoreResult(score_type, score, metadata=...), confidence left at 1.0
ScoreResultWith(t, s, m) ==
    [kind |-> t, score |-> s, confidence |-> ScoreUnit, metadata |-> m]

Min(a, b) == IF a < b THEN a ELSE b
Max(a, b) == IF a > b THEN a ELSE b

\* an HTTP call that raised (transport error, timeout) and a reply
Failure(why) == [kind |-> "raise", why |-> why]
Response(status, body) == [kind |-> "response", status |-> status, body |-> body]

\* a reply body that is no JSON document: response.json() raises
NotJson == [json |-> FALSE]
\* a reply body that is the JSON document doc
Json(doc) == [json |-> TRUE, doc |-> doc]

\* the empty dict
EmptyDict == [keys |-> {}]

\* dict.get(key, default)
Get(dict, key, default) == IF key \in dict.keys THEN dict[key] ELSE default

\* no call of a scorer or of the finalization is under way
Idle == call = NoCall /\ sc_composite = None

\* ---- HelpfulnessScorer --------------------------------------------------

\* the answer as the heuristic reads it: len(answer), the set of its
\* lower-cased words, whether it has a structure marker and a detail marker
AnswerLengths == {0, 20, 21, 49, 50, 500, 501}

HelpfulnessAnswers ==
    { a \in [length : AnswerLengths, words : {{}, 1..MaxWords},
             structured : BOOLEAN, details : BOOLEAN] :
        a.length = 0 => (a.words = {} /\ ~a.structured /\ ~a.details) }

\* the query: None, or a text with its set of lower-cased words
HelpfulnessQueries == {None} \cup {[words |-> 1..k] : k \in 0..MaxWords}

\* the content of the grader's message, symbol by symbol: a space, a number
\* (digits with an optional fraction, value in hundredths) or other text
Space == [sym |-> "space"]
Other == [sym |-> "text"]
Number(v) == [sym |-> "number", value |-> v]

ContentSymbols == {Space, Other} \cup {Number(v) : v \in {0, 100, 260, 300, 500, 900}}

RECURSIVE SeqsUpTo(_, _)
SeqsUpTo(S, n) ==
    IF n = 0 THEN {<<>>}
    ELSE LET shorter == SeqsUpTo(S, n - 1)
         IN shorter \cup {Append(q, x) : q \in shorter, x \in S}

\* message contents: null, or a string
NullContent == [null |-> TRUE]
Str(q) == [null |-> FALSE, text |-> q]

Contents == {NullContent} \cup {Str(q) : q \in SeqsUpTo(ContentSymbols, MaxContent)}

\* str.strip() on a content
Strip(q) ==
    IF \A i \in 1..Len(q) : q[i] = Space THEN <<>>
    ELSE LET lo == CHOOSE i \in 1..Len(q) :
                        q[i] # Space /\ \A j \in 1..(i - 1) : q[j] = Space
             hi == CHOOSE i \in 1..Len(q) :
                        q[i] # Space /\ \A j \in (i + 1)..Len(q) : q[j] = Space
         IN SubSeq(q, lo, hi)

\* a parsing bug: the converted score is returned without the clamp
parse_llm_score_unclamped(content) ==
    IF content.null THEN 50
    ELSE LET text == Strip(content.text)
         IN IF text # <<>> /\ Head(text).sym = "number"
            THEN (Head(text).value - ScoreUnit) \div 4
            ELSE 50

\* HelpfulnessScorer._parse_llm_score, the score: re.match(r'^(\d+(?:\.\d+)?)')
\* on the stripped content; (raw - 1) / 4 clamped to [0, 1]; 0.5 when there is
\* no leading number, and 0.5 when content is no string (content.strip()
\* raises inside the try)
parse_llm_score(content) ==
    IF content.null THEN 50
    ELSE LET text == Strip(content.text)
         IN IF text # <<>> /\ Head(text).sym = "number"
            THEN Max(0, Min(ScoreUnit, (Head(text).value - ScoreUnit) \div 4))
            ELSE 50

\* the explanation _parse_llm_score returns with the score
parse_llm_explanation(content) ==
    IF content.null THEN "Error parsing LLM response"
    ELSE LET text == Strip(content.text)
         IN IF text # <<>> /\ Head(text).sym = "number"
            THEN "content" ELSE "Could not parse LLM score"

\* a bug of the overlap factor: the cap min(0.3, .) is left out
OverlapFactor_uncapped(answer, query) ==
    IF query = None \/ query.words = {} THEN 0
    ELSE 10 * Cardinality(query.words \cap answer.words)

\* the factors of _heuristic_helpfulness_score, in hundredths
LengthFactor(answer) ==
    IF 50 <= answer.length /\ answer.length <= 500 THEN 30
    ELSE IF answer.length > 20 THEN 10
    ELSE 0

OverlapFactor(answer, query) ==
    IF query = None \/ query.words = {} THEN 0
    ELSE Min(30, 10 * Cardinality(query.words \cap answer.words))

StructureFactor(answer) == IF answer.structured THEN 20 ELSE 0

DetailFactor(answer) == IF answer.details THEN 20 ELSE 0

\* HelpfulnessScorer._heuristic_helpfulness_score
heuristic_helpfulness_score(answer, query) ==
    ScoreResultWith("helpfulness",
        Min(ScoreUnit, LengthFactor(answer) + OverlapFactor(answer, query)
                        + StructureFactor(answer) + DetailFactor(answer)),
        [method |-> "heuristic"])

\* ---- the texts of the heuristic, piece by piece ---------------------------

\* a text is a sequence of pieces: a blank, a block of three letters that holds
\* no marker (block 1, block 2, ...) in lower or upper case, a marker of the
\* heuristic in lower or upper case, or a quote character (", ', [ or ])
Blank == [p |-> "blank"]
Quote(k) == [p |-> "quote", k |-> k]
Letters(i, upper) == [p |-> "letters", id |-> i, upper |-> upper]
Marker(m, upper) == [p |-> "marker", m |-> m, upper |-> upper]

\* the markers of _heuristic_helpfulness_score
StructureMarkers == {"first", "second", "finally", "1.", "2."}
DetailMarkers == {"%", "$", "http", "@"}

\* the markers that have letters, and so an upper-case form
CasedMarkers == {"first", "second", "finally", "http"}

\* the number of characters of a piece
PieceLen(x) ==
    CASE x.p = "blank" -> 1
      [] x.p = "letters" -> 3
      [] x.p = "quote" -> 1
      [] x.p = "marker" ->
            CASE x.m = "first" -> 5
              [] x.m = "second" -> 6
              [] x.m = "finally" -> 7
              [] x.m = "http" -> 4
              [] x.m \in {"1.", "2."} -> 2
              [] OTHER -> 1

\* str.lower() on a sequence of pieces
LowerText(q) ==
    [i \in 1..Len(q) |-> IF "upper" \in DOMAIN q[i]
                         THEN [q[i] EXCEPT !.upper = FALSE]
                         ELSE q[i]]

\* str.split() on a sequence of pieces: the set of its words, the maximal runs
\* without a blank (the code only builds sets of the words)
SplitWords(q) ==
    {SubSeq(q, ij[1], ij[2]) :
        ij \in {r \in (1..Len(q)) \X (1..Len(q)) :
                    /\ r[1] <= r[2]
                    /\ \A k \in r[1]..r[2] : q[k] # Blank
                    /\ r[1] = 1 \/ q[r[1] - 1] = Blank
                    /\ r[2] = Len(q) \/ q[r[2] + 1] = Blank}}

\* marker in text, for one of the markers
ContainsMarker(q, markers) ==
    \E i \in 1..Len(q) : \E m \in markers : q[i] = Marker(m, FALSE)

\* a text is its body followed by pad blanks; len(text)
TextLen(t) == SumSeq([i \in 1..Len(t.body) |-> PieceLen(t.body[i])]) + t.pad

\* what _heuristic_helpfulness_score reads of the answer: len(answer),
\* set(answer.lower().split()), a structure marker in answer.lower(), a detail
\* marker in answer
ReadAnswer(t) ==
    [length |-> TextLen(t),
     words |-> SplitWords(LowerText(t.body)),
     structured |-> ContainsMarker(LowerText(t.body), StructureMarkers),
     details |-> ContainsMarker(t.body, DetailMarkers)]

\* what it reads of the query: set(query.lower().split())
ReadQuery(t) ==
    IF t = None THEN None ELSE [words |-> SplitWords(LowerText(t.body))]

\* the blocks 1..k, in one case, with a blank between two blocks
WordsText(k, upper) ==
    [i \in 1..(IF k = 0 THEN 0 ELSE 2 * k - 1) |->
        IF i % 2 = 1 THEN Letters((i + 1) \div 2, upper) ELSE Blank]

\* zero or one piece for each marker of the set, lower case or upper case
MarkerTexts(markers) ==
    {<<>>} \cup {<<Marker(m, FALSE)>> : m \in markers}
           \cup {<<Marker(m, TRUE)>> : m \in markers \cap CasedMarkers}

\* the end of an answer: a structure marker or none, then a detail marker or
\* none, after the last word or as a word of its own
Tails ==
    {glue \o sm \o dm : glue \in {<<>>, <<Blank>>},
                        sm \in MarkerTexts(StructureMarkers),
                        dm \in MarkerTexts(DetailMarkers)}

\* the answers: no word or MaxWords words, a tail, blanks up to the lengths
\* around the thresholds of the length factor
AnswerTexts ==
    {[body |-> WordsText(k, upper) \o tail, pad |-> n] :
        k \in {0, MaxWords}, upper \in BOOLEAN, tail \in Tails,
        n \in AnswerLengths}

\* the queries: None, the empty string, up to MaxWords words, with or without
\* the word "FIRST" at the end
QueryTexts ==
    {None} \cup
    {[body |-> WordsText(k, upper) \o tail, pad |-> 0] :
        k \in 0..MaxWords, upper \in BOOLEAN,
        tail \in {<<>>, <<Blank, Marker("first", TRUE)>>}}

\* one call of _heuristic_helpfulness_score(answer, query)
HeuristicScore ==
    /\ Idle
    /\ \E answer \in AnswerTexts, query \in QueryTexts :
        call' = [scorer |-> "heuristic", answer |-> answer, query |-> query,
                 result |-> heuristic_helpfulness_score(ReadAnswer(answer),
                                                        ReadQuery(query))]
    /\ UNCHANGED <<sc_pc, sc_task, sc_composite>>
    /\ UNCHANGED sweeper_vars
    /\ UNCHANGED mw

\* what the grading service can answer: the call raises or times out, a status
\* other than 200, a 200 whose body is no JSON, a JSON body without
\* choices[0].message.content, a body with a content
HelpfulnessBodies ==
    {NotJson, Json(EmptyDict)}
    \cup {Json([keys |-> {"content"}, content |-> c]) : c \in Contents}

HelpfulnessReplies ==
    {Failure("transport"), Failure("timeout")}
    \cup {Response(st, NotJson) : st \in {201, 429, 500}}
    \cup {Response(200, b) : b \in HelpfulnessBodies}

\* HelpfulnessScorer.score: what the call returns
HelpfulnessScorer_score(api_key, answer, query, reply) ==
    IF ~api_key THEN heuristic_helpfulness_score(answer, query)
    ELSE IF reply.kind = "raise" THEN heuristic_helpfulness_score(answer, query)
    ELSE IF reply.status # 200 THEN heuristic_helpfulness_score(answer, query)
    ELSE IF ~reply.body.json THEN heuristic_helpfulness_score(answer, query)
    ELSE IF "content" \notin reply.body.doc.keys
         THEN heuristic_helpfulness_score(answer, query)
    ELSE ScoreResultWith("helpfulness",
            parse_llm_score(reply.body.doc.content),
            [method |-> "llm",
             explanation |-> parse_llm_explanation(reply.body.doc.content)])

\* one call of HelpfulnessScorer.score; without a key no request is made
HelpfulnessScore ==
    /\ Idle
    /\ \E api_key \in BOOLEAN, answer \in HelpfulnessAnswers,
          query \in HelpfulnessQueries, reply \in HelpfulnessReplies :
        /\ ~api_key => reply = Failure("transport")
        /\ call' = [scorer |-> "helpfulness", api_key |-> api_key,
                    answer |-> answer, query |-> query,
                    posted |-> api_key,
                    reply |-> IF api_key THEN reply ELSE None,
                    result |-> HelpfulnessScorer_score(api_key, answer, query, reply)]
    /\ UNCHANGED <<sc_pc, sc_task, sc_composite>>
    /\ UNCHANGED sweeper_vars
    /\ UNCHANGED mw

\* ---- SafetyScorer -------------------------------------------------------

\* the answer as the safety scorer reads it, piece by piece: an unsafe term of
\* unsafe_patterns in lower or upper case ("bomb", "BOMB"), a letter, a space
TextSymbols == {"bomb", "BOMB", "s", " "}

SafetyTexts == SeqsUpTo(TextSymbols, MaxText)

\* str.lower()
Lower(text) == [i \in 1..Len(text) |-> IF text[i] = "BOMB" THEN "bomb" ELSE text[i]]

\* \w of the regular expressions
WordChar(x) == x # " "

\* the text contains the term as a substring, whatever the case
ContainsTerm(text) == \E i \in 1..Len(text) : Lower(text)[i] = "bomb"

\* re.search(r'\b(?:...|bomb)\b', text): the term between two word boundaries
PatternFound(text) ==
    \E i \in 1..Len(text) :
        /\ text[i] = "bomb"
        /\ i = 1 \/ ~WordChar(text[i - 1])
        /\ i = Len(text) \/ ~WordChar(text[i + 1])

\* an observability bug: the keyword path reports that the service was used
keyword_safety_score_api_flag(text) ==
    LET flagged_patterns == IF PatternFound(Lower(text)) THEN 1 ELSE 0
    IN ScoreResultWith("safety",
            IF flagged_patterns > 0 THEN 0 ELSE ScoreUnit,
            [method |-> "keyword", flagged_patterns |-> flagged_patterns,
             api_used |-> TRUE])

\* SafetyScorer._keyword_safety_score
keyword_safety_score(text) ==
    LET flagged_patterns == IF PatternFound(Lower(text)) THEN 1 ELSE 0
    IN ScoreResultWith("safety",
            IF flagged_patterns > 0 THEN 0 ELSE ScoreUnit,
            [method |-> "keyword", flagged_patterns |-> flagged_patterns,
             api_used |-> FALSE])

\* the categories of a moderation result
Categories == {"hate", "violence"}

\* results[0] of a moderation reply: a dict with or without "flagged" (a
\* boolean) and "categories" (the set of the categories that are true)
Moderations ==
    {EmptyDict}
    \cup {[keys |-> {"flagged"}, flagged |-> f] : f \in BOOLEAN}
    \cup {[keys |-> {"categories"}, categories |-> c] : c \in SUBSET Categories}
    \cup {[keys |-> {"flagged", "categories"}, flagged |-> f, categories |-> c] :
            f \in BOOLEAN, c \in SUBSET Categories}

\* what the moderation service can answer: the call raises, a status other
\* than 200, a 200 whose body is no JSON, a JSON body without "results", with
\* an empty "results", or with results[0]
SafetyBodies ==
    {NotJson, Json(EmptyDict), Json([keys |-> {"results"}, results |-> <<>>])}
    \cup {Json([keys |-> {"results"}, results |-> <<m>>]) : m \in Moderations}

SafetyReplies ==
    {Failure("transport"), Failure("timeout")}
    \cup {Response(st, NotJson) : st \in {201, 429, 500}}
    \cup {Response(200, b) : b \in SafetyBodies}

\* a grading bug: the score goes down with the number of flagged categories
moderation_score_graded(flagged, categories) ==
    IF flagged THEN 0 ELSE ScoreUnit - 10 * Cardinality(categories)

\* the score of _api_safety_score for a moderation result
moderation_score(flagged, categories) ==
    IF flagged THEN 0 ELSE ScoreUnit

\* SafetyScorer._api_safety_score
api_safety_score(text, reply) ==
    IF reply.kind = "raise" THEN keyword_safety_score(text)
    ELSE IF reply.status # 200 THEN keyword_safety_score(text)
    ELSE IF ~reply.body.json THEN keyword_safety_score(text)
    ELSE IF "results" \notin reply.body.doc.keys THEN keyword_safety_score(text)
    ELSE IF reply.body.doc.results = <<>> THEN keyword_safety_score(text)
    ELSE LET moderation == reply.body.doc.results[1]
             flagged == Get(moderation, "flagged", FALSE)
             categories == Get(moderation, "categories", {})
         IN ScoreResultWith("safety", moderation_score(flagged, categories),
                [flagged |-> flagged, categories |-> categories,
                 api_used |-> TRUE])

\* SafetyScorer.score
SafetyScorer_score(api_key, text, reply) ==
    IF api_key THEN api_safety_score(text, reply)
    ELSE keyword_safety_score(text)

\* one call of SafetyScorer.score; without a key no request is made
SafetyScore ==
    /\ Idle
    /\ \E api_key \in BOOLEAN, text \in SafetyTexts, reply \in SafetyReplies :
        /\ ~api_key => reply = Failure("transport")
        /\ call' = [scorer |-> "safety", api_key |-> api_key, answer |-> text,
                    posted |-> api_key,
                    reply |-> IF api_key THEN reply ELSE None,
                    result |-> SafetyScorer_score(api_key, text, reply)]
    /\ UNCHANGED <<sc_pc, sc_task, sc_composite>>
    /\ UNCHANGED sweeper_vars
    /\ UNCHANGED mw

\* ---- GroundingScorer ----------------------------------------------------

\* what _calculate_overlap_score computes from the TF-IDF vectors: the largest
\* cosine similarity of the answer with a chunk, a number of [0, 1]; the
\* vectorizer may raise (no vocabulary), which the method turns into 0.0
Similarities == {[raised |-> TRUE]} \cup {[raised |-> FALSE, max |-> v] : v \in {0, 30, 70, 100}}

\* GroundingScorer._calculate_overlap_score
calculate_overlap_score(num_chunks, similarity) ==
    IF num_chunks = 0 \/ similarity.raised THEN 0 ELSE similarity.max

\* the citations kept by _extract_citations, each with whether it occurs in the
\* chunk text
CitationLists == SeqsUpTo(BOOLEAN, MaxCitations)

\* re.findall(open ([^close]*) close, text) from position p on: the matches,
\* leftmost first and without overlap, each as the text between its delimiters
RECURSIVE FindAll(_, _, _, _)
FindAll(text, open, close, p) ==
    LET starts == {i \in p..Len(text) :
                        /\ text[i] = open
                        /\ \E j \in (i + 1)..Len(text) : text[j] = close}
    IN IF starts = {} THEN <<>>
       ELSE LET i == CHOOSE x \in starts : \A y \in starts : x <= y
                j == CHOOSE x \in (i + 1)..Len(text) :
                        /\ text[x] = close
                        /\ \A y \in (i + 1)..(x - 1) : text[y] # close
            IN <<SubSeq(text, i + 1, j - 1)>> \o FindAll(text, open, close, j + 1)

\* str.strip() on a sequence of pieces
StripText(q) ==
    IF \A i \in 1..Len(q) : q[i] = Blank THEN <<>>
    ELSE LET lo == CHOOSE i \in 1..Len(q) :
                        q[i] # Blank /\ \A j \in 1..(i - 1) : q[j] = Blank
             hi == CHOOSE i \in 1..Len(q) :
                        q[i] # Blank /\ \A j \in (i + 1)..Len(q) : q[j] = Blank
         IN SubSeq(q, lo, hi)

\* len() of a sequence of pieces
PiecesLen(q) == SumSeq([i \in 1..Len(q) |-> PieceLen(q[i])])

\* the shortest citation that is not kept has this many characters
CitationMinLen == 10

\* a length bug: citations of exactly ten characters are kept too
KeepCitation_ten(c) == PiecesLen(StripText(c)) >= CitationMinLen

\* the filter of _extract_citations: len(c.strip()) > 10
KeepCitation(c) == PiecesLen(StripText(c)) > CitationMinLen

\* [c.strip() for c in citations if len(c.strip()) > 10]
RECURSIVE SelectKept(_)
SelectKept(q) ==
    IF q = <<>> THEN <<>>
    ELSE (IF KeepCitation(Head(q)) THEN <<StripText(Head(q))>> ELSE <<>>)
            \o SelectKept(Tail(q))

\* GroundingScorer._extract_citations
extract_citations(text) ==
    SelectKept(FindAll(text, Quote("double"), Quote("double"), 1)
               \o FindAll(text, Quote("open"), Quote("close"), 1)
               \o FindAll(text, Quote("single"), Quote("single"), 1))

\* " ".join(chunks)
RECURSIVE JoinChunks(_)
JoinChunks(chunks) ==
    IF chunks = <<>> THEN <<>>
    ELSE IF Len(chunks) = 1 THEN chunks[1]
    ELSE chunks[1] \o <<Blank>> \o JoinChunks(Tail(chunks))

\* needle in hay, for texts
InText(needle, hay) ==
    \E i \in 0..(Len(hay) - Len(needle)) :
        SubSeq(hay, i + 1, i + Len(needle)) = needle

\* the citations of the answer, each as whether it is found in the chunk text:
\* citation.lower() in " ".join(chunks).lower()
MatchCitations(answer, chunks) ==
    LET citations == extract_citations(answer)
        chunk_text == LowerText(JoinChunks(chunks))
    IN [i \in 1..Len(citations) |-> InText(LowerText(citations[i]), chunk_text)]

\* GroundingScorer._calculate_citation_score, to the hundredth below
calculate_citation_score(citations) ==
    IF citations = <<>> THEN 0
    ELSE (Cardinality({i \in 1..Len(citations) : citations[i]}) * ScoreUnit)
            \div Len(citations)

\* an input bug: an empty chunk list is refused with an exception
GroundingScorer_score_refuse_empty(num_chunks, similarity, citations) ==
    IF num_chunks = 0
    THEN Raised
    ELSE LET overlap_score == calculate_overlap_score(num_chunks, similarity)
             citation_score == calculate_citation_score(citations)
         IN ScoreResultWith("grounding",
                (7 * overlap_score + 3 * citation_score) \div 10,
                [overlap_score |-> overlap_score,
                 citation_score |-> citation_score,
                 num_chunks |-> num_chunks])

\* GroundingScorer.score
GroundingScorer_score(num_chunks, similarity, citations) ==
    IF num_chunks = 0
    THEN ScoreResultWith("grounding", 0, [num_chunks |-> 0])
    ELSE LET overlap_score == calculate_overlap_score(num_chunks, similarity)
             citation_score == calculate_citation_score(citations)
         IN ScoreResultWith("grounding",
                (7 * overlap_score + 3 * citation_score) \div 10,
                [overlap_score |-> overlap_score,
                 citation_score |-> citation_score,
                 num_chunks |-> num_chunks])

\* one call of GroundingScorer.score
GroundingScore ==
    /\ Idle
    /\ \E num_chunks \in 0..2, similarity \in Similarities,
          citations \in CitationLists :
        call' = [scorer |-> "grounding", num_chunks |-> num_chunks,
                 similarity |-> similarity, citations |-> citations,
                 result |-> GroundingScorer_score(num_chunks, similarity, citations)]
    /\ UNCHANGED <<sc_pc, sc_task, sc_composite>>
    /\ UNCHANGED sweeper_vars
    /\ UNCHANGED mw

\* a phrase of eleven characters, in lower or upper case, the same phrase
\* between blanks, a phrase of ten characters, alone and between blanks, and a
\* phrase of eleven characters that no chunk holds
Phrase(upper) ==
    <<Letters(1, upper), Blank, Letters(2, upper), Blank, Letters(3, upper)>>
ShortPhrase == <<Letters(1, FALSE), Blank, Letters(2, FALSE), Letters(3, FALSE)>>
OtherPhrase ==
    <<Letters(3, FALSE), Blank, Letters(2, FALSE), Blank, Letters(1, FALSE)>>

CitedTexts ==
    {Phrase(FALSE), Phrase(TRUE), <<Blank>> \o Phrase(FALSE) \o <<Blank>>,
     ShortPhrase, <<Blank>> \o ShortPhrase \o <<Blank>>, OtherPhrase}

\* the pairs of delimiters of _extract_citations
Delimiters ==
    {<<Quote("double"), Quote("double")>>, <<Quote("single"), Quote("single")>>,
     <<Quote("open"), Quote("close")>>}

\* a part of an answer: a text between delimiters, or a word with an apostrophe
Segments ==
    {<<dl[1]>> \o c \o <<dl[2]>> : dl \in Delimiters, c \in CitedTexts}
    \cup {<<Letters(1, FALSE), Quote("single"), Letters(2, FALSE)>>}

\* the answers: up to MaxCitations parts with a blank between two parts
GroundingAnswers == {JoinChunks(segs) : segs \in SeqsUpTo(Segments, MaxCitations)}

\* the chunk texts: none, the phrase in one chunk in lower or upper case, the
\* phrase over two chunks, the short phrase
ChunkLists ==
    {<<>>, <<Phrase(FALSE)>>, <<Phrase(TRUE)>>,
     << <<Letters(1, FALSE)>>, <<Letters(2, FALSE), Blank, Letters(3, FALSE)>> >>,
     << <<Letters(2, FALSE)>>, ShortPhrase >>}

\* one call of _calculate_citation_score(answer, chunks)
CitationScore ==
    /\ Idle
    /\ \E answer \in GroundingAnswers, chunks \in ChunkLists :
        call' = [scorer |-> "citation", answer |-> answer, chunks |-> chunks,
                 citation_score |->
                    calculate_citation_score(MatchCitations(answer, chunks))]
    /\ UNCHANGED <<sc_pc, sc_task, sc_composite>>
    /\ UNCHANGED sweeper_vars
    /\ UNCHANGED mw

\* ---- the scorers and the finalization, call by call ---------------------

\* a CompositeScore is built from sub-results and finalized
Finalize ==
    /\ Idle
    /\ \E g \in Outcomes("grounding"), h \in Outcomes("helpfulness"),
          s \in Outcomes("safety") :
        sc_composite' = calculate_overall(
                            CompositeScore(HandleException(g), HandleException(h),
                                           HandleException(s)))
    /\ UNCHANGED <<call, mw>>
    /\ UNCHANGED <<sc_pc, sc_task>>
    /\ UNCHANGED sweeper_vars

\* calculate_overall is called once more on the finalized CompositeScore
FinalizeAgain ==
    /\ call = NoCall
    /\ sc_composite # None
    /\ sc_composite' = calculate_overall(sc_composite)
    /\ call' = [scorer |-> "finalize", before |-> sc_composite]
    /\ UNCHANGED <<sc_pc, sc_task>>
    /\ UNCHANGED sweeper_vars
    /\ UNCHANGED mw

\* the caller has the result of the call
ResultTaken ==
    /\ ~Idle
    /\ sc_pc = "ready"
    /\ call' = NoCall
    /\ sc_composite' = None
    /\ UNCHANGED <<sc_pc, sc_task>>
    /\ UNCHANGED sweeper_vars
    /\ UNCHANGED mw

\* the scorers after construction, no call made yet
ScoringInit ==
    /\ sc_pc = "ready"
    /\ sc_task = [a \in Axes |-> Pending]
    /\ sc_composite = None
    /\ traces = <<>>
    /\ evaluations = <<>>
    /\ sw = <<>>
    /\ faults = 0
    /\ call = NoCall
    /\ mw = RateLimitMiddleware(default_rate, NoBurst)

ScoringNext ==
    \/ HelpfulnessScore
    \/ SafetyScore
    \/ GroundingScore
    \/ Finalize
    \/ FinalizeAgain
    \/ ResultTaken

\* the scorers called one after the other with every input and service reply
ScoringSpec == ScoringInit /\ [][ScoringNext]_vars

HeuristicNext ==
    \/ HeuristicScore
    \/ ResultTaken

\* the heuristic called with every answer and query
HeuristicSpec == ScoringInit /\ [][HeuristicNext]_vars

CitationNext ==
    \/ CitationScore
    \/ ResultTaken

\* the citation score computed for every answer and list of chunks
CitationSpec == ScoringInit /\ [][CitationNext]_vars

(***************************************************************************)
(* Persistence: api/models.py, api/crud.py                                 *)
(***************************************************************************)

\* bounds of the model
NumTenants == 2
NumTraces == 7
MaxEligible == 3
MaxFaults == 1
MaxSweepers == 2

\* limit=5 of get_traces_for_evaluation in evaluate_traces_background
BatchLimit == 5

Tenants == 1..NumTenants
TraceIds == 1..NumTraces
SweeperIds == 1..MaxSweepers

\* a nullable column: NULL, or Val(v)
NULL == <<>>
Val(v) == <<v>>

\* the tenants in order of created_at, as list_tenants returns them
TenantList == [i \in 1..NumTenants |-> i]

\* the tenant owning a trace: the first tenant owns one trace more than a
\* batch holds, the second tenant owns the rest
TenantOf(t) == IF t <= BatchLimit + 1 THEN 1 ELSE 2

\* the sequence of the elements of the set S of integers, ascending: its i-th
\* element is the element of S that has i elements of S up to itself
SortedSeq(S) ==
    [i \in 1..Cardinality(S) |->
        CHOOSE x \in S : Cardinality({y \in S : y <= x}) = i]

\* the set of the elements of q
Range(q) == {q[i] : i \in 1..Len(q)}

\* the first n elements of q
Take(q, n) == SubSeq(q, 1, IF Len(q) < n THEN Len(q) ELSE n)

\* a filter bug: the query forgets "overall_score IS NULL"
Selectable_ignores_score(tr, tenant_id, t) ==
    /\ ~tr[t].deleted
    /\ tr[t].tenant_id = tenant_id
    /\ tr[t].error = NULL
    /\ tr[t].model_output # NULL

\* the filter of TraceCRUD.get_traces_for_evaluation
Selectable(tr, tenant_id, t) ==
    /\ ~tr[t].deleted
    /\ tr[t].tenant_id = tenant_id
    /\ tr[t].overall_score = NULL
    /\ tr[t].error = NULL
    /\ tr[t].model_output # NULL

\* TraceCRUD.get_traces_for_evaluation: the matching rows ordered by timestamp
\* (trace ids are in timestamp order), cut at limit
get_traces_for_evaluation(tr, tenant_id, limit) ==
    Take(SortedSeq({t \in DOMAIN tr : Selectable(tr, tenant_id, t)}), limit)

\* query(TraceRecord).filter(tenant_id, trace_id).first(): trace_id is no key
\* of the table, several rows of a tenant can hold the same trace_id; the query
\* has no ORDER BY and the rows come in storage order, the oldest first
FirstRow(tr, tenant_id, trace_id) ==
    CHOOSE r \in DOMAIN tr :
        /\ tr[r].trace_id = trace_id /\ tr[r].tenant_id = tenant_id
        /\ ~tr[r].deleted
        /\ \A x \in DOMAIN tr :
            (/\ tr[x].trace_id = trace_id /\ tr[x].tenant_id = tenant_id
             /\ ~tr[x].deleted) => r <= x

\* TraceCRUD.update_trace_scores: the table after the call.  A row that is not
\* found leaves the table as it is (the call returns None); an argument that is
\* None leaves its column as it is.
update_trace_scores(tr, tenant_id, trace_id, g, h, s, overall, light) ==
    IF \A r \in DOMAIN tr :
            \/ tr[r].trace_id # trace_id
            \/ tr[r].tenant_id # tenant_id
            \/ tr[r].deleted
    THEN tr
    ELSE [tr EXCEPT ![FirstRow(tr, tenant_id, trace_id)] =
            [@ EXCEPT !.grounding_score = IF g # NULL THEN g ELSE @,
                      !.helpfulness_score = IF h # NULL THEN h ELSE @,
                      !.safety_score = IF s # NULL THEN s ELSE @,
                      !.overall_score = IF overall # NULL THEN overall ELSE @,
                      !.traffic_light = IF light # NULL THEN light ELSE @]]

\* an upsert bug: a new detailed record replaces the table's records
create_evaluation_replace(ev, tenant_id, trace_id, score_type, r) ==
    <<[tenant_id |-> tenant_id, trace_id |-> trace_id,
       score_type |-> score_type, score |-> r.score,
       confidence |-> r.confidence, evaluator_version |-> NULL]>>

\* EvaluationCRUD.create_evaluation: the table after the call; the sweeper
\* passes no evaluator_version, so the column keeps its default None
create_evaluation(ev, tenant_id, trace_id, score_type, r) ==
    Append(ev, [tenant_id |-> tenant_id, trace_id |-> trace_id,
                score_type |-> score_type, score |-> r.score,
                confidence |-> r.confidence, evaluator_version |-> NULL])

(***************************************************************************)
(* Evaluation sweeper: evaluate_traces_background and lifespan, api/main.py *)
(***************************************************************************)

\* the detailed records in the order the sweeper stores them
StoreOrder == <<"grounding", "helpfulness", "safety">>

\* "composite_score.x.score if composite_score.x else None"
ScoreOrNone(r) == IF Present(r) THEN Val(r.score) ELSE NULL

\* the create_evaluation calls for the first n axes of q, in order
RECURSIVE StoreEvaluations(_, _, _, _, _, _)
StoreEvaluations(ev, tenant_id, trace_id, c, q, n) ==
    IF n = 0 \/ q = <<>> THEN ev
    ELSE StoreEvaluations(
            create_evaluation(ev, tenant_id, trace_id, Head(q), c[Head(q)]),
            tenant_id, trace_id, c, Tail(q), n - 1)

\* the index of x in q (0 when absent)
IndexOf(q, x) ==
    IF \E i \in 1..Len(q) : q[i] = x
    THEN CHOOSE i \in 1..Len(q) : q[i] = x
    ELSE 0

\* the persistence calls of one write-back; failAt names the call that raises
\* ("none": no call raises).  A call that raises has stored nothing, the calls
\* before it are committed, the calls after it are not made.
WriteBackCalls(c) == SelectSeq(StoreOrder, LAMBDA a : Present(c[a]))

FailPoints(c) == {"none", "update"} \cup {a \in Axes : Present(c[a])}

WriteBackTraces(tr, tenant_id, trace_id, c, failAt) ==
    IF failAt = "update" THEN tr
    ELSE update_trace_scores(tr, tenant_id, trace_id,
                             ScoreOrNone(c.grounding),
                             ScoreOrNone(c.helpfulness),
                             ScoreOrNone(c.safety),
                             Val(c.overall_score),
                             Val(c.overall_traffic_light))

WriteBackEvaluations(ev, tenant_id, trace_id, c, failAt) ==
    IF failAt = "update" THEN ev
    ELSE LET calls == WriteBackCalls(c)
             n == IF failAt = "none" THEN Len(calls)
                  ELSE IndexOf(calls, failAt) - 1
         IN StoreEvaluations(ev, tenant_id, trace_id, c, calls, n)

\* what the three scorers end with for a trace the sweeper evaluates: all three
\* return; the helpfulness scorer raises; all three raise
SweepResults ==
    { [grounding |-> ScoreResult("grounding", 90),
       helpfulness |-> ScoreResult("helpfulness", 60),
       safety |-> ScoreResult("safety", 100)],
      [grounding |-> ScoreResult("grounding", 90),
       helpfulness |-> Raised,
       safety |-> ScoreResult("safety", 100)],
      [grounding |-> Raised, helpfulness |-> Raised, safety |-> Raised] }

\* what "await evaluator.score(...)" returns in the sweeper: the finalized
\* composite of one of these results
SweepComposites == {CompositeOf(res) : res \in SweepResults}

\* sw[s].pc: "absent" (no such task), "created" (asyncio.create_task done, not
\* yet run), "tick" (top of the while body), "tenant_loop", "trace_loop",
\* "scoring" (suspended in await evaluator.score), "sleeping" (suspended in
\* await asyncio.sleep), "cancelled" (ended by CancelledError), "crashed"
\* (ended by any other exception)
InTick(pc) == pc \in {"tick", "tenant_loop", "trace_loop", "scoring"}

Suspended(pc) == pc \in {"created", "scoring", "sleeping"}

Set(s, r) == sw' = [sw EXCEPT ![s] = r]

\* the event loop runs the task for the first time: while True
Start(s) ==
    /\ sw[s].pc = "created"
    /\ ~sw[s].cancel_requested
    /\ Set(s, [sw[s] EXCEPT !.pc = "tick"])
    /\ UNCHANGED <<traces, evaluations, faults>>
    /\ UNCHANGED scorer_vars
    /\ UNCHANGED <<call, mw>>

\* a handler bug: the exception of list_tenants is not caught and ends the task
ListTenants_uncaught(s) ==
    /\ sw[s].pc = "tick"
    /\ \/ /\ Set(s, [sw[s] EXCEPT !.pc = "tenant_loop", !.tenants = TenantList,
                                     !.pulled = {}, !.failed = {}])
          /\ UNCHANGED faults
       \/ /\ faults < MaxFaults
          /\ faults' = faults + 1
          /\ Set(s, [sw[s] EXCEPT !.pc = "crashed", !.last = "error",
                                     !.pulled = {}, !.failed = {}])
    /\ UNCHANGED <<traces, evaluations>>
    /\ UNCHANGED scorer_vars
    /\ UNCHANGED <<call, mw>>

\* db = SessionLocal(); tenants = TenantCRUD.list_tenants(db, limit=1000).
\* Either may raise: "except Exception" prints and the loop goes to sleep.
ListTenants(s) ==
    /\ sw[s].pc = "tick"
    /\ \/ /\ Set(s, [sw[s] EXCEPT !.pc = "tenant_loop", !.tenants = TenantList,
                                     !.pulled = {}, !.failed = {}])
          /\ UNCHANGED faults
       \/ /\ faults < MaxFaults
          /\ faults' = faults + 1
          /\ Set(s, [sw[s] EXCEPT !.pc = "sleeping", !.last = "error",
                                     !.pulled = {}, !.failed = {}])
    /\ UNCHANGED <<traces, evaluations>>
    /\ UNCHANGED scorer_vars
    /\ UNCHANGED <<call, mw>>

\* for tenant in tenants: traces = get_traces_for_evaluation(db, tenant.id, 5).
\* After the last tenant: db.close() and sleep.  The query may raise, which
\* ends the tick through "except Exception".
NextTenant(s) ==
    /\ sw[s].pc = "tenant_loop"
    /\ IF sw[s].tenants = <<>>
       THEN /\ Set(s, [sw[s] EXCEPT !.pc = "sleeping", !.tenant = 0, !.last = "ok"])
            /\ UNCHANGED faults
       ELSE \/ /\ LET batch == get_traces_for_evaluation(
                                  traces, Head(sw[s].tenants), BatchLimit)
                  IN Set(s, [sw[s] EXCEPT
                              !.pc = "trace_loop",
                              !.tenant = Head(sw[s].tenants),
                              !.tenants = Tail(sw[s].tenants),
                              !.batch = batch,
                              !.pulled = @ \cup Range(batch)])
               /\ UNCHANGED faults
            \/ /\ faults < MaxFaults
               /\ faults' = faults + 1
               /\ Set(s, [sw[s] EXCEPT !.pc = "sleeping", !.tenants = <<>>,
                                       !.tenant = 0, !.last = "error"])
    /\ UNCHANGED <<traces, evaluations>>
    /\ UNCHANGED scorer_vars
    /\ UNCHANGED <<call, mw>>

\* for trace in traces: "if not trace.model_output: continue", else the call
\* evaluator.score(...) is made and the task is suspended in its await.  The
\* row of the trace may have been deleted since the query: the loaded object
\* is read as it was, or, when a commit of this session has expired it, the
\* read reloads it and raises (ObjectDeletedError), outside the inner try.
NextTrace(s) ==
    /\ sw[s].pc = "trace_loop"
    /\ IF sw[s].batch = <<>>
       THEN Set(s, [sw[s] EXCEPT !.pc = "tenant_loop"])
       ELSE LET t == Head(sw[s].batch)
            IN \/ IF traces[t].model_output \in {NULL, Val("")}
                  THEN Set(s, [sw[s] EXCEPT !.batch = Tail(sw[s].batch)])
                  ELSE Set(s, [sw[s] EXCEPT !.pc = "scoring", !.trace = t,
                                            !.batch = Tail(sw[s].batch)])
               \/ /\ traces[t].deleted
                  /\ Set(s, [sw[s] EXCEPT !.pc = "sleeping", !.batch = <<>>,
                                          !.tenants = <<>>, !.tenant = 0,
                                          !.last = "error"])
    /\ UNCHANGED <<traces, evaluations, faults>>
    /\ UNCHANGED scorer_vars
    /\ UNCHANGED <<call, mw>>

\* the persistent effect of evaluating the sweeper's current trace: the
\* finalized composite c is written back, failAt raises
Evaluated(s, c, failAt) ==
    /\ failAt \in FailPoints(c)
    /\ IF failAt = "none" THEN UNCHANGED faults
       ELSE faults < MaxFaults /\ faults' = faults + 1
    /\ traces' = WriteBackTraces(traces, sw[s].tenant,
                                 traces[sw[s].trace].trace_id, c, failAt)
    /\ evaluations' = WriteBackEvaluations(evaluations, sw[s].tenant,
                                           traces[sw[s].trace].trace_id,
                                           c, failAt)

\* a handler bug: an exception of the write-back leaves the loop over the traces
\* and ends the tick
EvaluateTrace_abort(s, c, failAt) ==
    /\ sw[s].pc = "scoring"
    /\ ~sw[s].cancel_requested
    /\ Evaluated(s, c, failAt)
    /\ IF failAt = "none"
       THEN Set(s, [sw[s] EXCEPT !.pc = "trace_loop", !.trace = 0])
       ELSE Set(s, [sw[s] EXCEPT !.pc = "sleeping", !.trace = 0,
                                 !.batch = <<>>, !.tenants = <<>>,
                                 !.tenant = 0, !.last = "error",
                                 !.failed = @ \cup {sw[s].trace}])
    /\ UNCHANGED scorer_vars
    /\ UNCHANGED <<call, mw>>

\* evaluator.score returns the finalized composite; update_trace_scores and one
\* create_evaluation per present axis follow with no await in between.  A call
\* that raises is caught by the inner "except Exception": print, continue.
EvaluateTrace(s, c, failAt) ==
    /\ sw[s].pc = "scoring"
    /\ ~sw[s].cancel_requested
    /\ Evaluated(s, c, failAt)
    /\ Set(s, [sw[s] EXCEPT !.pc = "trace_loop", !.trace = 0,
                            !.failed = IF failAt = "none" THEN @
                                       ELSE @ \cup {sw[s].trace}])
    /\ UNCHANGED scorer_vars
    /\ UNCHANGED <<call, mw>>

\* asyncio.sleep(30) is over: the next iteration of while True
WakeUp(s) ==
    /\ sw[s].pc = "sleeping"
    /\ ~sw[s].cancel_requested
    /\ Set(s, [sw[s] EXCEPT !.pc = "tick"])
    /\ UNCHANGED <<traces, evaluations, faults>>
    /\ UNCHANGED scorer_vars
    /\ UNCHANGED <<call, mw>>

\* lifespan shutdown: evaluation_task.cancel().  The lifespan coroutine runs on
\* the same event loop, so the sweeper is suspended when it is called.
LifespanCancel(s) ==
    /\ Suspended(sw[s].pc)
    /\ ~sw[s].cancel_requested
    /\ Set(s, [sw[s] EXCEPT !.cancel_requested = TRUE])
    /\ UNCHANGED <<traces, evaluations, faults>>
    /\ UNCHANGED scorer_vars
    /\ UNCHANGED <<call, mw>>

\* the task is resumed with CancelledError raised at its await.  CancelledError
\* is no Exception: neither handler catches it, "finally" closes the session
\* and the task ends.
Cancelled(s) ==
    /\ Suspended(sw[s].pc)
    /\ sw[s].cancel_requested
    /\ Set(s, [sw[s] EXCEPT !.pc = "cancelled", !.batch = <<>>, !.tenants = <<>>,
                            !.tenant = 0])
    /\ UNCHANGED <<traces, evaluations, faults>>
    /\ UNCHANGED scorer_vars
    /\ UNCHANGED <<call, mw>>

\* what a trace row can be when the sweeper starts
Kinds == {"eligible", "empty", "noanswer", "errored", "scored"}

\* the kind of the traces that are not eligible, under a pattern: all of them
\* have an empty answer, or they take turns (no answer, errored, scored)
OtherKind(pattern, t) ==
    IF pattern = "empty" THEN "empty"
    ELSE CASE t % 3 = 0 -> "noanswer"
           [] t % 3 = 1 -> "errored"
           [] OTHER -> "scored"

\* a row as TraceCRUD.create_trace stores it: no score column set.  A row that
\* is deleted stays in the table marked deleted: no query finds it, and a
\* TraceRecord object loaded before the deletion still holds its columns.
NewRow(trace_id, tenant_id, model_output, error) ==
    [trace_id |-> trace_id, tenant_id |-> tenant_id,
     model_output |-> model_output, error |-> error,
     grounding_score |-> NULL, helpfulness_score |-> NULL,
     safety_score |-> NULL, overall_score |-> NULL, traffic_light |-> NULL,
     deleted |-> FALSE]

\* the composite of an earlier evaluation in which the three scorers returned
EarlierComposite ==
    CompositeOf([a \in Axes |-> ScoreResult(a, 90)])

\* the row of trace t of the given kind
RowOf(t, kind) ==
    LET row == NewRow(t, TenantOf(t),
                      CASE kind = "empty" -> Val("")
                        [] kind = "noanswer" -> NULL
                        [] OTHER -> Val("answer"),
                      IF kind = "errored" THEN Val("error") ELSE NULL)
    IN IF kind = "scored"
       THEN WriteBackTraces([x \in {t} |-> row], TenantOf(t), t,
                            EarlierComposite, "none")[t]
       ELSE row

\* the detailed records of the traces scored earlier, trace by trace
RECURSIVE EarlierEvaluations(_, _)
EarlierEvaluations(q, kindOf) ==
    IF q = <<>> THEN <<>>
    ELSE (IF kindOf[Head(q)] = "scored"
          THEN WriteBackEvaluations(<<>>, TenantOf(Head(q)), Head(q),
                                    EarlierComposite, "none")
          ELSE <<>>)
         \o EarlierEvaluations(Tail(q), kindOf)

\* the populations the sweeper starts from: a run of at most MaxEligible
\* consecutive traces is eligible, the other traces follow one pattern
Populations ==
    { [t \in TraceIds |-> IF i <= t /\ t <= j THEN "eligible" ELSE OtherKind(k, t)] :
        i \in TraceIds, j \in 0..NumTraces, k \in {"empty", "mixed"} }
    \cap { kindOf \in [TraceIds -> Kinds] :
            Cardinality({t \in TraceIds : kindOf[t] = "eligible"}) <= MaxEligible }

\* a sweeper task and its locals (tenants, tenant, batch: the two loops; trace:
\* the trace being evaluated, 0 for none; cancel_requested: cancel() was called
\* on the task).  Three fields record history for the properties and are read
\* by no action: last (how the latest tick ended: "ok", or "error" when an
\* exception reached the outer handler), pulled (the traces pulled in this
\* tick) and failed (the traces whose evaluation raised in this tick).
Task(pc) ==
    [pc |-> pc, cancel_requested |-> FALSE, tenants |-> <<>>, tenant |-> 0,
     batch |-> <<>>, trace |-> 0, last |-> "none", pulled |-> {}, failed |-> {}]

\* the application starts: the tables hold some population of traces and
\* lifespan has created the one sweeper task
Init ==
    /\ sc_pc = "ready"
    /\ sc_task = [a \in Axes |-> Pending]
    /\ sc_composite = None
    /\ \E kindOf \in Populations :
        /\ traces = [t \in TraceIds |-> RowOf(t, kindOf[t])]
        /\ evaluations = EarlierEvaluations(SortedSeq(TraceIds), kindOf)
    /\ sw = [s \in SweeperIds |-> IF s = 1 THEN Task("created") ELSE Task("absent")]
    /\ faults = 0
    /\ call = NoCall
    /\ mw = RateLimitMiddleware(default_rate, NoBurst)

Next ==
    \E s \in SweeperIds :
        \/ Start(s)
        \/ ListTenants(s)
        \/ NextTenant(s)
        \/ NextTrace(s)
        \/ \E c \in SweepComposites, failAt \in {"none", "update"} \cup Axes :
                EvaluateTrace(s, c, failAt)
        \/ WakeUp(s)
        \/ LifespanCancel(s)
        \/ Cancelled(s)

Spec == Init /\ [][Next]_vars

\* what the event loop does to a sweeper task on its own: it runs a task that
\* is ready, an awaited scorer call ends (every service call has a timeout), a
\* sleep ends.  Calling cancel() is the application's choice.
SweeperStep(s) ==
    \/ Start(s)
    \/ ListTenants(s)
    \/ NextTenant(s)
    \/ NextTrace(s)
    \/ \E c \in SweepComposites, failAt \in {"none", "update"} \cup Axes :
            EvaluateTrace(s, c, failAt)
    \/ WakeUp(s)
    \/ Cancelled(s)

FairSpec == Spec /\ \A s \in SweeperIds : WF_vars(SweeperStep(s))

\* the populations with one eligible trace, the other traces taking turns
OverlapPopulations ==
    { [t \in TraceIds |-> IF t = i THEN "eligible" ELSE OtherKind("mixed", t)] :
        i \in TraceIds }

\* two sweeps overlap: the application runs in two worker processes on one
\* database, the lifespan of each has created its sweeper task; no persistence
\* call raises in this run
OverlapInit ==
    /\ sc_pc = "ready"
    /\ sc_task = [a \in Axes |-> Pending]
    /\ sc_composite = None
    /\ \E kindOf \in OverlapPopulations :
        /\ traces = [t \in TraceIds |-> RowOf(t, kindOf[t])]
        /\ evaluations = EarlierEvaluations(SortedSeq(TraceIds), kindOf)
    /\ sw = [s \in SweeperIds |-> IF s <= 2 THEN Task("created") ELSE Task("absent")]
    /\ faults = MaxFaults
    /\ call = NoCall
    /\ mw = RateLimitMiddleware(default_rate, NoBurst)

OverlapSpec == OverlapInit /\ [][Next]_vars

\* TraceCRUD.delete_old_traces, the rows: the traces of the tenant older than the
\* cutoff are deleted (trace ids are in timestamp order: those up to cutoff)
delete_old_traces(tr, tenant_id, cutoff) ==
    [t \in DOMAIN tr |->
        IF tr[t].tenant_id = tenant_id /\ t <= cutoff
        THEN [tr[t] EXCEPT !.deleted = TRUE]
        ELSE tr[t]]

\* the indices of the n oldest detailed records of the tenant
OldestEvaluations(ev, tenant_id, n) ==
    {i \in 1..Len(ev) :
        /\ ev[i].tenant_id = tenant_id
        /\ Cardinality({j \in 1..i : ev[j].tenant_id = tenant_id}) <= n}

\* TraceCRUD.delete_old_traces, the detailed records: the records of the tenant
\* older than the cutoff are deleted (records are stored in time order: the n
\* oldest of the tenant)
delete_old_evaluations(ev, tenant_id, n) ==
    LET keep == SortedSeq((1..Len(ev)) \ OldestEvaluations(ev, tenant_id, n))
    IN [k \in 1..Len(keep) |-> ev[keep[k]]]

\* a retention run: delete_old_traces is called for a tenant, by a request or
\* another process, while the sweeper runs.  A detailed record is younger than
\* its trace, so the trace of a deleted record is deleted too.  One run per
\* behaviour.
DeleteOldTraces(tenant_id, cutoff, n) ==
    /\ \A t \in TraceIds : ~traces[t].deleted
    /\ \E t \in TraceIds : traces[t].tenant_id = tenant_id /\ t <= cutoff
    /\ n <= Cardinality({i \in 1..Len(evaluations) :
                            evaluations[i].tenant_id = tenant_id})
    /\ \A i \in OldestEvaluations(evaluations, tenant_id, n) :
            evaluations[i].trace_id <= cutoff
    /\ traces' = delete_old_traces(traces, tenant_id, cutoff)
    /\ evaluations' = delete_old_evaluations(evaluations, tenant_id, n)
    /\ UNCHANGED <<sw, faults>>
    /\ UNCHANGED scorer_vars
    /\ UNCHANGED <<call, mw>>

\* the application with a retention run: one trace is eligible, and no
\* persistence call raises in this run
RetentionInit ==
    /\ sc_pc = "ready"
    /\ sc_task = [a \in Axes |-> Pending]
    /\ sc_composite = None
    /\ \E kindOf \in OverlapPopulations :
        /\ traces = [t \in TraceIds |-> RowOf(t, kindOf[t])]
        /\ evaluations = EarlierEvaluations(SortedSeq(TraceIds), kindOf)
    /\ sw = [s \in SweeperIds |-> IF s = 1 THEN Task("created") ELSE Task("absent")]
    /\ faults = MaxFaults
    /\ call = NoCall
    /\ mw = RateLimitMiddleware(default_rate, NoBurst)

RetentionNext ==
    \/ Next
    \/ \E tenant_id \in Tenants, cutoff \in TraceIds, n \in 0..Len(evaluations) :
            DeleteOldTraces(tenant_id, cutoff, n)

RetentionSpec == RetentionInit /\ [][RetentionNext]_vars

\* the most detailed records a run with a repeated trace_id stores
MaxRecords == 12

\* a client has posted one trace twice: rows 1 and dup of tenant 1 hold the
\* same trace_id and an answer (POST /api/v1/traces stores whatever trace_id it
\* is given, and the column is not unique); the other traces take turns; one
\* sweeper, no persistence call raises
DuplicateInit ==
    /\ sc_pc = "ready"
    /\ sc_task = [a \in Axes |-> Pending]
    /\ sc_composite = None
    /\ \E dup \in {2, 3} :
        LET kindOf == [t \in TraceIds |-> IF t \in {1, dup} THEN "eligible"
                                          ELSE OtherKind("mixed", t)]
        IN /\ traces = [t \in TraceIds |->
                            IF t = dup
                            THEN [RowOf(t, "eligible") EXCEPT !.trace_id = 1]
                            ELSE RowOf(t, kindOf[t])]
           /\ evaluations = EarlierEvaluations(SortedSeq(TraceIds), kindOf)
    /\ sw = [s \in SweeperIds |-> IF s = 1 THEN Task("created") ELSE Task("absent")]
    /\ faults = MaxFaults
    /\ call = NoCall
    /\ mw = RateLimitMiddleware(default_rate, NoBurst)

\* the steps of Next; the run is followed until MaxRecords detailed records
\* are stored
DuplicateNext ==
    \E s \in SweeperIds :
        \/ Start(s)
        \/ ListTenants(s)
        \/ NextTenant(s)
        \/ NextTrace(s)
        \/ \E c \in SweepComposites, failAt \in {"none", "update"} \cup Axes :
                /\ Len(evaluations) < MaxRecords
                /\ EvaluateTrace(s, c, failAt)
        \/ WakeUp(s)
        \/ LifespanCancel(s)
        \/ Cancelled(s)

DuplicateSpec == DuplicateInit /\ [][DuplicateNext]_vars

\* ---- the requests that reach the rate limiting middleware ---------------

\* the slug of a tenant (Tenant.slug, the subdomain of its host)
Slugs == <<"acme", "beta", "gamma", "delta">>
SlugOf(t) == Slugs[t]

\* first labels of a host that name no tenant
ReservedSubdomains == {"localhost", "127", "api", "www", "cloud"}

\* paths that are not rate limited
SkippedPaths == {"/health", "/", "/docs", "/openapi.json"}

\* the requests: tenant is the tenant of the API key (get_tenant_context),
\* host is the Host header split at the dots, x_tenant_id the header (Absent
\* when not sent); the SDK sends the API key only
Hosts ==
    {<<"localhost:8000">>, <<"api", "ragtoolkit", "app">>} \cup
    {<<SlugOf(t), "ragtoolkit", "app">> : t \in 1..NumTenants}
Requests ==
    [tenant : 1..NumTenants,
     host : Hosts,
     x_tenant_id : {Absent} \cup {SlugOf(t) : t \in 1..NumTenants},
     path : {"/health", "/api/v1/traces"}]

\* get_tenant_id_from_request: the subdomain, else the header, else None
get_tenant_id_from_request(request) ==
    IF Len(request.host) > 1 /\ request.host[1] \notin ReservedSubdomains
    THEN request.host[1]
    ELSE IF request.x_tenant_id # Absent THEN request.x_tenant_id
    ELSE Absent

\* get_limiter_for_tenant: the tenant's limiter, created at the first request
\* with the default configuration (tenant_configs is never filled)
get_limiter_for_tenant(m, tenant_id) ==
    IF tenant_id \in DOMAIN m.tenant_limiters
    THEN m.tenant_limiters[tenant_id]
    ELSE TokenBucketRateLimiter(m.default_rate, m.default_rate, m.clock)

\* tenant_limiters with the limiter of tenant_id replaced or added
SetLimiter(limiters, tenant_id, l) ==
    [k \in DOMAIN limiters \cup {tenant_id} |->
        IF k = tenant_id THEN l ELSE limiters[k]]

\* dispatch(request, call_next): the middleware after the request
dispatch(m, request) ==
    IF request.path \in SkippedPaths
    THEN [m EXCEPT !.response = [status |-> "next", scope |-> "skipped"]]
    ELSE LET tenant_id == get_tenant_id_from_request(request)
             limiter == IF tenant_id # Absent
                        THEN get_limiter_for_tenant(m, tenant_id)
                        ELSE m.global_limiter
             limiter_name == IF tenant_id # Absent THEN tenant_id ELSE "global"
             r == allow_request(limiter, m.clock)
             response ==
                IF ~r.allowed
                THEN [status |-> "429", scope |-> limiter_name,
                      retry_after |-> r.retry_after,
                      Retry_After |-> (r.retry_after.num \div r.retry_after.den) + 1]
                ELSE [status |-> "next", scope |-> limiter_name,
                      retry_after |-> r.retry_after]
         IN IF tenant_id # Absent
            THEN [m EXCEPT !.tenant_limiters = SetLimiter(@, tenant_id, r.limiter),
                           !.response = response]
            ELSE [m EXCEPT !.global_limiter = r.limiter, !.response = response]

\* one request reaches the middleware
Dispatch(request) ==
    /\ mw' = dispatch(mw, request)
    /\ UNCHANGED scorer_vars
    /\ UNCHANGED sweeper_vars
    /\ UNCHANGED call

\* time.time() advances by one tick
TimePasses ==
    /\ mw.clock < MaxTime
    /\ mw' = [mw EXCEPT !.clock = @ + 1, !.response = NoResponse]
    /\ UNCHANGED scorer_vars
    /\ UNCHANGED sweeper_vars
    /\ UNCHANGED call

RateLimitNext ==
    \/ \E request \in Requests : Dispatch(request)
    \/ TimePasses

\* requests of every tenant reach the middleware of the application as time
\* passes
RateLimitSpec == ScoringInit /\ [][RateLimitNext]_vars

(***************************************************************************)
(* Properties of the score model and the composite scorer (ScorerSpec)     *)
(***************************************************************************)

\* the weight table as the specification states it, in tenths
SpecWeight == [safety |-> 4, grounding |-> 4, helpfulness |-> 2]

PresentAxes(c) == {a \in Axes : c[a] # None}

\* C1: after calculate_overall, a present safety result with score < 0.5, or a
\* present grounding result with score < 0.5, forces overall_status to red,
\* whatever overall_score and the helpfulness score are.
C1_RedOverride ==
    sc_pc = "returned" =>
        ((\/ sc_composite.safety # None /\ sc_composite.safety.score * 2 < ScoreUnit
          \/ sc_composite.grounding # None /\ sc_composite.grounding.score * 2 < ScoreUnit)
         => sc_composite.overall_traffic_light = "red")

\* C1 witness: safety 0.0, grounding 0.95, helpfulness 0.95: the weighted average
\* is 0.57 (amber by number) and the status is red
C1_Witness ==
    /\ sc_pc = "returned"
    /\ sc_composite.safety = ScoreResult("safety", 0)
    /\ sc_composite.grounding = ScoreResult("grounding", 95)
    /\ sc_composite.helpfulness = ScoreResult("helpfulness", 95)
    /\ sc_composite.overall_score * 2 >= ScoreUnit * NormUnit
    /\ sc_composite.overall_traffic_light = "red"

\* C2: with at least one axis present, overall_score is the sum over the present
\* axes of (w_axis / sum of the present w) * score_axis, each weight paired with
\* the score of its own axis (stated cross-multiplied by the sum of the weights).
C2_WeightedAverage ==
    (sc_pc = "returned" /\ PresentAxes(sc_composite) # {}) =>
        LET P == PresentAxes(sc_composite)
            WSum[S \in SUBSET Axes] ==
                IF S = {} THEN 0
                ELSE LET a == CHOOSE x \in S : TRUE
                     IN SpecWeight[a] + WSum[S \ {a}]
            WDot[S \in SUBSET Axes] ==
                IF S = {} THEN 0
                ELSE LET a == CHOOSE x \in S : TRUE
                     IN SpecWeight[a] * sc_composite[a].score + WDot[S \ {a}]
        IN sc_composite.overall_score * WSum[P] = NormUnit * WDot[P]

\* C2 witness: safety absent, grounding 0.9, helpfulness 0.6: overall_score is 0.8
C2_Witness ==
    /\ sc_pc = "returned"
    /\ sc_composite.safety = None
    /\ sc_composite.grounding = ScoreResult("grounding", 90)
    /\ sc_composite.helpfulness = ScoreResult("helpfulness", 60)
    /\ sc_composite.overall_score * 10 = 8 * ScoreUnit * NormUnit

\* C3: CompositeScorer.score never raises; when it returns, every scorer has run
\* to its end, exactly the axes whose scorer raised are absent, every other axis
\* holds its scorer's result, and the CompositeScore is finalized.
C3_ScorerIsolation ==
    /\ sc_pc # "raised"
    /\ sc_pc = "returned" =>
        /\ \A a \in Axes :
            /\ sc_task[a] # Pending
            /\ sc_task[a] = Raised => sc_composite[a] = None
            /\ sc_task[a] # Raised => sc_composite[a] = sc_task[a]
        /\ sc_composite = calculate_overall(sc_composite)

\* C3 witness: the helpfulness scorer raised while the other two returned
C3_Witness ==
    /\ sc_pc = "returned"
    /\ sc_task["helpfulness"] = Raised
    /\ sc_task["grounding"] = ScoreResult("grounding", 90)
    /\ sc_task["safety"] = ScoreResult("safety", 100)
    /\ sc_composite.helpfulness = None
    /\ sc_composite.grounding = ScoreResult("grounding", 90)
    /\ sc_composite.overall_traffic_light = "green"

\* status(score) of the specification, for an overall score
StatusOf(overall) ==
    IF overall * 10 >= 8 * ScoreUnit * NormUnit THEN "green"
    ELSE IF overall * 10 >= 5 * ScoreUnit * NormUnit THEN "amber"
    ELSE "red"

\* a present safety or grounding result is red
RedAxis(c) ==
    \E a \in {"safety", "grounding"} : c[a] # None /\ c[a].score * 10 < 5 * ScoreUnit

\* C23: for a finalized CompositeScore with at least one axis present and no
\* red safety or grounding axis, overall_status is green when overall_score >=
\* 0.8, amber when 0.5 <= overall_score < 0.8 and red below 0.5.
C23_StatusFollowsScore ==
    (/\ sc_pc = "returned"
     /\ PresentAxes(sc_composite) # {}
     /\ ~RedAxis(sc_composite))
    => sc_composite.overall_traffic_light = StatusOf(sc_composite.overall_score)

\* C23 witness: the three scores are 0.8, the overall score is exactly 0.8 and
\* the status is green
C23_Witness ==
    /\ sc_pc = "returned"
    /\ \A a \in Axes : sc_composite[a] = ScoreResult(a, 80)
    /\ sc_composite.overall_score * 10 = 8 * ScoreUnit * NormUnit
    /\ sc_composite.overall_traffic_light = "green"

\* C24: when all three scorers fail, CompositeScorer.score does not raise and
\* returns a CompositeScore with the three axes absent, overall_score 0 and
\* overall_status red.
C24_AllAbsent ==
    /\ (sc_pc = "gathering" /\ \A a \in Axes : sc_task[a] = Raised)
        => ENABLED GatherReturn
    /\ sc_pc # "raised"
    /\ (sc_pc = "returned" /\ \A a \in Axes : sc_task[a] = Raised) =>
        /\ PresentAxes(sc_composite) = {}
        /\ sc_composite.overall_score = 0
        /\ sc_composite.overall_traffic_light = "red"

\* C24 witness: the three scorers raised and score() has returned
C24_Witness ==
    /\ sc_pc = "returned"
    /\ \A a \in Axes : sc_task[a] = Raised
    /\ sc_composite.overall_score = 0
    /\ sc_composite.overall_traffic_light = "red"

(***************************************************************************)
(* Properties of the evaluation sweeper (Spec, FairSpec)                   *)
(***************************************************************************)

\* eligible as the specification defines it: no overall score yet, no recorded
\* error, and a non-empty answer
EligibleRow(r) ==
    /\ r.overall_score = NULL
    /\ r.error = NULL
    /\ r.model_output # NULL
    /\ r.model_output # Val("")

\* the score columns of a row
ScoreColumns(r) ==
    <<r.grounding_score, r.helpfulness_score, r.safety_score,
      r.overall_score, r.traffic_light>>

\* the column of a row that holds the summary score of an axis
AxisColumn(r, a) ==
    CASE a = "grounding" -> r.grounding_score
      [] a = "helpfulness" -> r.helpfulness_score
      [] a = "safety" -> r.safety_score

\* how many detailed records of kind a the trace t has
Records(t, a) ==
    Cardinality({i \in 1..Len(evaluations) :
                    /\ evaluations[i].trace_id = t
                    /\ evaluations[i].score_type = a})

\* the summary of t is written, with one detailed record per axis it holds
WrittenBack(t) ==
    /\ traces[t].overall_score # NULL
    /\ traces[t].traffic_light # NULL
    /\ \A a \in Axes : (AxisColumn(traces[t], a) # NULL) <=> (Records(t, a) = 1)

\* nothing of an evaluation of t is stored
NothingWritten(t) ==
    /\ ScoreColumns(traces[t]) = <<NULL, NULL, NULL, NULL, NULL>>
    /\ \A a \in Axes : Records(t, a) = 0

\* C4 (state part): in a tick, every trace that was pulled, has a non-empty
\* answer, is neither waiting in the batch nor being evaluated, and whose own
\* evaluation did not raise, is scored and written back.
C4_OthersWritten ==
    \A s \in SweeperIds :
        sw[s].pc # "cancelled" =>
            \A t \in sw[s].pulled :
                (/\ t \notin Range(sw[s].batch)
                 /\ t # sw[s].trace
                 /\ t \notin sw[s].failed
                 /\ traces[t].model_output # Val(""))
                => WrittenBack(t)

\* C4 (step part): the step that ends an evaluation, raised or not, goes on with
\* the same rest of the batch and the same later tenants, and no exception
\* reaches the outer handler of the tick.
C4_BatchGoesOn ==
    \A s \in SweeperIds :
        (sw[s].pc = "scoring" /\ sw'[s].pc # "scoring" /\ ~sw[s].cancel_requested)
        => /\ sw'[s].pc = "trace_loop"
           /\ sw'[s].batch = sw[s].batch
           /\ sw'[s].tenants = sw[s].tenants
           /\ sw'[s].last = sw[s].last

C5_OnlyCancelStops ==
    \A s \in SweeperIds :
        /\ sw[s].pc # "crashed"
        /\ sw[s].pc = "cancelled" => sw[s].cancel_requested

\* C5 (step part): a tick is left only into the sleep (or by cancellation), and
\* a tick is entered only at its top, from the sleep or from the task's creation
C5_SleepBetweenTicks ==
    \A s \in SweeperIds :
        /\ (InTick(sw[s].pc) /\ ~InTick(sw'[s].pc))
            => \/ sw'[s].pc = "sleeping"
               \/ sw'[s].pc = "cancelled" /\ sw[s].cancel_requested
        /\ (~InTick(sw[s].pc) /\ InTick(sw'[s].pc))
            => /\ sw[s].pc \in {"created", "sleeping"}
               /\ sw'[s].pc = "tick"

\* C5: the sweeper loop stops only by explicit cancellation: every tick, ended
\* normally or by a top-level exception, is followed by the sleep, and the sleep
\* by a new tick unless the task is cancelled.
C5_LoopKeepsRunning ==
    /\ []C5_OnlyCancelStops
    /\ [][C5_SleepBetweenTicks]_vars
    /\ \A s \in SweeperIds :
        (sw[s].pc = "sleeping") ~> (sw[s].pc = "tick" \/ sw[s].cancel_requested)

\* C5 witness: a new tick has begun after a tick that a top-level exception ended
C5_Witness ==
    \E s \in SweeperIds : sw[s].pc = "tick" /\ sw[s].last = "error"

\* C6: a trace whose evaluation raised is no longer unscored: it has an overall
\* score and a status, the status is red when no axis score was stored for it,
\* and the query for eligible traces does not return it again.
C6_AttemptedIsScored ==
    \A s \in SweeperIds :
        \A t \in sw[s].failed :
            /\ traces[t].overall_score # NULL
            /\ traces[t].traffic_light # NULL
            /\ (\A a \in Axes : AxisColumn(traces[t], a) = NULL)
                => traces[t].traffic_light = Val("red")
            /\ ~Selectable(traces, TenantOf(t), t)

\* the sweeper is evaluating trace t
BeingEvaluated(t) ==
    \E s \in SweeperIds : sw[s].pc = "scoring" /\ sw[s].trace = t

CancelRequested == \E s \in SweeperIds : sw[s].cancel_requested

\* C7: as long as the sweeper is not cancelled, every eligible trace is
\* eventually evaluated, whatever the other traces of its tenant are.
C7_Progress ==
    \A t \in TraceIds :
        EligibleRow(traces[t])
            ~> (BeingEvaluated(t) \/ ~EligibleRow(traces[t]) \/ CancelRequested)

\* C8: when the sweeper ends by cancellation while a trace is being evaluated,
\* that trace has been scored and written back.
C8_CurrentTraceFinished ==
    \A s \in SweeperIds :
        (sw[s].pc = "cancelled" /\ sw[s].trace # 0) => WrittenBack(sw[s].trace)

\* C9: every trace has either its summary written together with one detailed
\* record per present axis, or nothing of an evaluation at all.
C9_AtomicWriteBack ==
    \A t \in TraceIds : WrittenBack(t) \/ NothingWritten(t)

\* C10 (state part): the trace the composite scorer runs on is eligible
C10_EvaluatesEligible ==
    \A s \in SweeperIds :
        sw[s].pc = "scoring" => EligibleRow(traces[sw[s].trace])

\* C10 (step part): a step changes the score columns of eligible traces only
C10_WritesEligible ==
    \A t \in TraceIds :
        ScoreColumns(traces'[t]) # ScoreColumns(traces[t]) => EligibleRow(traces[t])

SummaryOf(c) ==
    <<ScoreOrNone(c.grounding), ScoreOrNone(c.helpfulness), ScoreOrNone(c.safety),
      Val(c.overall_score), Val(c.overall_traffic_light)>>

\* the sweeper s ends the evaluation of its current trace and no call raised
SuccessfulEvaluation(s) ==
    /\ sw[s].pc = "scoring"
    /\ sw'[s].pc = "trace_loop"
    /\ sw'[s].failed = sw[s].failed

\* the records of ev are all still there, in place, in ev2
AppendOnly(ev, ev2) ==
    /\ Len(ev) <= Len(ev2)
    /\ SubSeq(ev2, 1, Len(ev)) = ev

\* how many detailed records of kind a for trace t there are in ev
RecordsIn(ev, t, a) ==
    Cardinality({i \in 1..Len(ev) : ev[i].trace_id = t /\ ev[i].score_type = a})

\* C11 (step part): a successful evaluation of a trace writes the scores and the
\* status of one composite to the trace and appends one detailed record for
\* each axis present in it and none for an absent axis.
C11_SuccessWrites ==
    \A s \in SweeperIds :
        SuccessfulEvaluation(s) =>
            \E c \in SweepComposites :
                /\ ScoreColumns(traces'[sw[s].trace]) = SummaryOf(c)
                /\ \A a \in Axes :
                    RecordsIn(evaluations', sw[s].trace, a)
                        = RecordsIn(evaluations, sw[s].trace, a)
                            + (IF Present(c[a]) THEN 1 ELSE 0)
                /\ Len(evaluations') = Len(evaluations) + Len(WriteBackCalls(c))

\* C11: on a successful evaluation the sweeper writes the summary scores and the
\* status to the trace and appends exactly one detailed record per present axis
\* and none for an absent axis; no step of the sweeper changes or removes a
\* detailed record that is already stored.
C11_WriteBackEffect ==
    [][C11_SuccessWrites /\ AppendOnly(evaluations, evaluations')]_vars

\* C11 witness: a trace was evaluated successfully with the helpfulness axis
\* absent (two records of its own, none for helpfulness) while the records of
\* an earlier evaluation of another trace are still stored
C11_Witness ==
    \E t \in TraceIds, u \in TraceIds :
        /\ traces[t].helpfulness_score = NULL
        /\ traces[t].safety_score = Val(100)
        /\ Records(t, "grounding") = 1
        /\ Records(t, "safety") = 1
        /\ Records(t, "helpfulness") = 0
        /\ traces[u].helpfulness_score = Val(90)
        /\ \A a \in Axes : Records(u, a) = 1

\* C13: every detailed record the sweeper appends carries an evaluator_version.
C13_VersionStamped ==
    [][\A i \in (Len(evaluations) + 1)..Len(evaluations') :
            evaluations'[i].evaluator_version # NULL]_vars

\* the composites a stored summary can come from: those the sweeper obtains and
\* the one of the evaluations made before the sweeper started
KnownComposites == SweepComposites \cup {EarlierComposite}

\* C12: the summary columns and the status of every scored trace are those of
\* one composite result: a column of an axis that is absent in the composite
\* written last holds no value of an earlier evaluation.
C12_SummaryFromLatest ==
    \A t \in TraceIds :
        traces[t].overall_score # NULL =>
            \E c \in KnownComposites : ScoreColumns(traces[t]) = SummaryOf(c)

\* the sweeper s ends the evaluation of a trace whose row is gone: the
\* write-back did not find it
MissingTraceEvaluated(s) ==
    /\ sw[s].pc = "scoring"
    /\ sw'[s].pc # "scoring"
    /\ ~sw[s].cancel_requested
    /\ traces[sw[s].trace].deleted

\* C14: when the write-back does not find the trace, the sweeper skips it: no
\* detailed record is appended for it, no exception ends the tick, and the tick
\* goes on with the rest of the batch.
C14_MissingTraceSkipped ==
    [][\A s \in SweeperIds :
        MissingTraceEvaluated(s) =>
            /\ evaluations' = evaluations
            /\ sw'[s].pc = "trace_loop"
            /\ sw'[s].batch = sw[s].batch
            /\ sw'[s].tenants = sw[s].tenants]_vars

\* the sweeper s ends, with no call raising, the evaluation of a trace that
\* another sweep has scored since s selected it
SecondWriteBack(s) ==
    /\ SuccessfulEvaluation(s)
    /\ traces[sw[s].trace].overall_score # NULL

\* C28: when two sweeps evaluate the same trace, the write-back that runs last
\* succeeds, the trace then has the summary fields of that write-back, and the
\* detailed records of both evaluations are stored.
C28_LastWriterWins ==
    [][\A s \in SweeperIds :
        SecondWriteBack(s) =>
            \E c \in SweepComposites :
                /\ ScoreColumns(traces'[sw[s].trace]) = SummaryOf(c)
                /\ \A a \in Axes :
                    RecordsIn(evaluations', sw[s].trace, a)
                        = RecordsIn(evaluations, sw[s].trace, a)
                            + (IF Present(c[a]) THEN 1 ELSE 0)
                /\ AppendOnly(evaluations, evaluations')]_vars

\* how many detailed records are stored under the trace_id t
RecordsOf(ev, t) == Cardinality({i \in 1..Len(ev) : ev[i].trace_id = t})

\* C29: with one sweeper a trace is evaluated successfully at most once: the
\* trace had no overall score when its evaluation began, it has one after a
\* write-back that found it (also when the three axes are absent), a score
\* that is set stays set, and no trace ever has more than three detailed
\* records.
C29_EvaluatedOnce ==
    [][/\ \A s \in SweeperIds :
            (SuccessfulEvaluation(s) /\ ~traces[sw[s].trace].deleted) =>
                /\ traces[sw[s].trace].overall_score = NULL
                /\ traces'[sw[s].trace].overall_score # NULL
       /\ \A t \in TraceIds :
            /\ traces[t].overall_score # NULL => traces'[t].overall_score # NULL
            /\ RecordsOf(evaluations', t) <= 3]_vars

(***************************************************************************)
(* Properties of the three scorers (ScoringSpec)                           *)
(***************************************************************************)

\* C15: every ScoreResult a scorer returns, on its primary path, on its
\* fallback path and for degenerate input, has its score and its confidence in
\* [0, 1], and every finalized CompositeScore has its overall_score in [0, 1].
C15_ScoresInRange ==
    /\ "result" \in DOMAIN call =>
        /\ 0 <= call.result.score /\ call.result.score <= ScoreUnit
        /\ 0 <= call.result.confidence /\ call.result.confidence <= ScoreUnit
    /\ sc_composite # None =>
        /\ 0 <= sc_composite.overall_score
        /\ sc_composite.overall_score <= ScoreUnit * NormUnit

\* C15 witness: the grader answered "9 ..." and the helpfulness score is 1.0
C15_Witness ==
    /\ call.scorer = "helpfulness"
    /\ call.posted
    /\ call.reply.kind = "response"
    /\ call.reply.status = 200
    /\ call.reply.body.json
    /\ "content" \in call.reply.body.doc.keys
    /\ ~call.reply.body.doc.content.null
    /\ call.reply.body.doc.content.text = <<Number(900), Other>>
    /\ call.result.score = ScoreUnit

\* the reply of the grading service is a failure: the call raised or timed out,
\* the status is not 2xx, or the body of a 200 is malformed (no JSON, no
\* choices[0].message.content, a content that is no string)
GradingFailed(reply) ==
    \/ reply.kind = "raise"
    \/ /\ reply.kind = "response"
       /\ \/ reply.status \notin 200..299
          \/ /\ reply.status = 200
             /\ \/ ~reply.body.json
                \/ "content" \notin reply.body.doc.keys
                \/ reply.body.doc.content.null

\* C16: HelpfulnessScorer.score returns the heuristic result, without a request,
\* when no key is configured, and returns exactly the heuristic result for the
\* same answer and query when the grading service fails.
C16_HelpfulnessFallsBack ==
    call.scorer = "helpfulness" =>
        /\ ~call.api_key =>
            /\ ~call.posted
            /\ call.result = heuristic_helpfulness_score(call.answer, call.query)
        /\ (call.api_key /\ GradingFailed(call.reply)) =>
            call.result = heuristic_helpfulness_score(call.answer, call.query)

\* the grading service replied with a text that has no leading number
NoLeadingNumber(reply) ==
    /\ reply.kind = "response"
    /\ reply.status = 200
    /\ reply.body.json
    /\ "content" \in reply.body.doc.keys
    /\ ~reply.body.doc.content.null
    /\ LET text == Strip(reply.body.doc.content.text)
       IN text = <<>> \/ Head(text).sym # "number"

\* C17: when the reply text of the grading service has no leading number, the
\* result of HelpfulnessScorer.score is the heuristic result for the same
\* answer and query.
C17_NoNumberFallsBack ==
    (call.scorer = "helpfulness" /\ call.api_key /\ NoLeadingNumber(call.reply))
        => call.result = heuristic_helpfulness_score(call.answer, call.query)

\* the body of a moderation reply has the expected shape: results[0] with a
\* flagged boolean and a categories map
ModerationShape(body) ==
    /\ body.json
    /\ "results" \in body.doc.keys
    /\ body.doc.results # <<>>
    /\ {"flagged", "categories"} \subseteq body.doc.results[1].keys

\* the reply of the moderation service is a failure: the call raised, the status
\* is not 2xx, or the body of a 200 has not the expected shape
ModerationFailed(reply) ==
    \/ reply.kind = "raise"
    \/ /\ reply.kind = "response"
       /\ \/ reply.status \notin 200..299
          \/ reply.status = 200 /\ ~ModerationShape(reply.body)

\* C18: when the moderation service fails or its reply has not the expected
\* shape, SafetyScorer.score returns exactly the keyword result for the same
\* answer.
C18_SafetyFallsBack ==
    (call.scorer = "safety" /\ call.api_key /\ ModerationFailed(call.reply))
        => call.result = keyword_safety_score(call.answer)

\* C19: on the keyword path an answer that contains an unsafe term as a
\* substring, in any case, scores 0.0, and an answer that contains none scores
\* 1.0.
C19_KeywordSubstring ==
    (call.scorer = "safety" /\ ~call.result.metadata.api_used) =>
        call.result.score = IF ContainsTerm(call.answer) THEN 0 ELSE ScoreUnit

\* C20: on the moderation path the safety score is 0.0 when the reply's flagged
\* is true and 1.0 when it is false, whatever categories are set.
C20_ModerationBinary ==
    (/\ call.scorer = "safety"
     /\ call.result.metadata.api_used
     /\ "flagged" \in call.reply.body.doc.results[1].keys)
    => call.result.score
        = IF call.reply.body.doc.results[1].flagged THEN 0 ELSE ScoreUnit

\* C20 witness: a reply that is not flagged and has both categories set
C20_Witness ==
    /\ call.scorer = "safety"
    /\ call.result.metadata.api_used
    /\ call.reply.body.doc.results[1].keys = {"flagged", "categories"}
    /\ ~call.reply.body.doc.results[1].flagged
    /\ call.reply.body.doc.results[1].categories = Categories
    /\ call.result.score = ScoreUnit

\* the score of a safety call was derived from a reply of the moderation
\* service: a key is configured and the service answered 200 with a JSON body
\* that has a results[0]
DerivedFromReply(c) ==
    /\ c.api_key
    /\ c.reply.kind = "response"
    /\ c.reply.status = 200
    /\ c.reply.body.json
    /\ "results" \in c.reply.body.doc.keys
    /\ c.reply.body.doc.results # <<>>

\* C21: every safety result carries metadata.api_used; it is true exactly when
\* the score was derived from a reply of the moderation service, and false
\* when the keyword path produced the result, also as fallback after a failed
\* service call.
C21_ApiUsedTellsPath ==
    call.scorer = "safety" =>
        /\ "api_used" \in DOMAIN call.result.metadata
        /\ call.result.metadata.api_used <=> DerivedFromReply(call)
        /\ ~DerivedFromReply(call) =>
            /\ call.result.metadata.method = "keyword"
            /\ call.result.score
                = IF PatternFound(Lower(call.answer)) THEN 0 ELSE ScoreUnit

\* C21 witness: the service call raised and the keyword path produced the
\* result, marked api_used false
C21_Witness ==
    /\ call.scorer = "safety"
    /\ call.api_key
    /\ call.reply.kind = "raise"
    /\ call.result.metadata.method = "keyword"
    /\ ~call.result.metadata.api_used

\* the number of distinct words, whatever their case, that the query and the
\* answer share
SharedWords(answer, query) ==
    Cardinality({LowerText(w) : w \in {v \in SplitWords(answer.body) :
        \E u \in SplitWords(query.body) : LowerText(u) = LowerText(v)}})

\* the four terms of the heuristic as the specification states them, in
\* hundredths: the structure markers are looked for whatever the case of the
\* answer, the detail markers as they are written
TermL(answer) ==
    IF 50 <= TextLen(answer) /\ TextLen(answer) <= 500 THEN 30
    ELSE IF TextLen(answer) > 20 THEN 10
    ELSE 0

TermO(answer, query) ==
    IF query = None THEN 0 ELSE Min(30, 10 * SharedWords(answer, query))

TermS(answer) ==
    IF \E i \in 1..Len(answer.body) :
            /\ answer.body[i].p = "marker"
            /\ answer.body[i].m \in StructureMarkers
    THEN 20 ELSE 0

TermD(answer) ==
    IF \E i \in 1..Len(answer.body) :
            /\ answer.body[i].p = "marker"
            /\ answer.body[i].m \in DetailMarkers
            /\ ~answer.body[i].upper
    THEN 20 ELSE 0

\* C22: the heuristic helpfulness score is min(1, L + O + S + D) for every
\* answer and query, with L from the length of the answer, O from the words
\* shared with the query, S from the structure markers and D from the detail
\* markers.
C22_HeuristicFormula ==
    call.scorer = "heuristic" =>
        call.result.score
            = Min(ScoreUnit, TermL(call.answer) + TermO(call.answer, call.query)
                              + TermS(call.answer) + TermD(call.answer))

\* C22 witness: an answer of good length that shares more than three words,
\* in the other case, with the query and has a structure marker and a detail
\* marker: the four terms add up to 1.0
C22_Witness ==
    /\ call.scorer = "heuristic"
    /\ call.query # None
    /\ SharedWords(call.answer, call.query) > 3
    /\ SplitWords(call.answer.body) \cap SplitWords(call.query.body) = {}
    /\ TermL(call.answer) = 30
    /\ TermS(call.answer) = 20
    /\ TermD(call.answer) = 20
    /\ call.result.score = ScoreUnit

\* C25: a second call of calculate_overall on a finalized CompositeScore leaves
\* overall_score and overall_status as the first call set them and does not
\* change the three sub-results.
C25_FinalizeIdempotent ==
    call.scorer = "finalize" =>
        /\ sc_composite.overall_score = call.before.overall_score
        /\ sc_composite.overall_traffic_light = call.before.overall_traffic_light
        /\ \A a \in Axes : sc_composite[a] = call.before[a]

\* C25 witness: a CompositeScore with grounding 0.9 and helpfulness 0.6 was
\* finalized twice and its overall score is 0.8
C25_Witness ==
    /\ call.scorer = "finalize"
    /\ sc_composite.safety = None
    /\ sc_composite.grounding = ScoreResult("grounding", 90)
    /\ sc_composite.helpfulness = ScoreResult("helpfulness", 60)
    /\ sc_composite.overall_score * 10 = 8 * ScoreUnit * NormUnit
    /\ sc_composite.overall_traffic_light = "green"

\* C26: GroundingScorer.score with an empty chunk list returns, without an
\* error, a grounding ScoreResult with score exactly 0.0, whatever the answer.
C26_EmptyChunksZero ==
    (call.scorer = "grounding" /\ call.num_chunks = 0) =>
        /\ call.result # Raised
        /\ call.result.kind = "grounding"
        /\ call.result.score = 0

\* C26 witness: no chunk, while the answer has a citation
C26_Witness ==
    /\ call.scorer = "grounding"
    /\ call.num_chunks = 0
    /\ call.citations # <<>>
    /\ call.result.score = 0

\* the substrings of text enclosed in double quotes or in single quotes (the
\* quote characters pair up from the left) or in square brackets, each as the
\* positions of its delimiters
Enclosed(text) ==
    {r \in (1..Len(text)) \X (1..Len(text)) :
        /\ r[1] < r[2]
        /\ \/ \E k \in {"double", "single"} :
                /\ text[r[1]] = Quote(k) /\ text[r[2]] = Quote(k)
                /\ \A i \in (r[1] + 1)..(r[2] - 1) : text[i] # Quote(k)
                /\ Cardinality({i \in 1..(r[1] - 1) : text[i] = Quote(k)}) % 2 = 0
           \/ /\ text[r[1]] = Quote("open") /\ text[r[2]] = Quote("close")
              /\ \A i \in (r[1] + 1)..(r[2] - 1) :
                    text[i] \notin {Quote("open"), Quote("close")}}

\* the enclosed substring between two positions, trimmed
Trimmed(text, r) == StripText(SubSeq(text, r[1] + 1, r[2] - 1))

\* the citations of the specification: the enclosed substrings whose trimmed
\* length is greater than 10; and those found, whatever the case, in the
\* chunk texts put together
KeptCitations(text) ==
    {r \in Enclosed(text) : PiecesLen(Trimmed(text, r)) > 10}

FoundCitations(text, chunks) ==
    {r \in KeptCitations(text) :
        InText(LowerText(Trimmed(text, r)), LowerText(JoinChunks(chunks)))}

\* C27: citation_score is the fraction of the kept citations that are found in
\* the chunks (to the hundredth below), 0.0 when no citation is kept and 1.0 when
\* every kept citation is found.
C27_CitationFraction ==
    call.scorer = "citation" =>
        LET kept == Cardinality(KeptCitations(call.answer))
            found == Cardinality(FoundCitations(call.answer, call.chunks))
        IN /\ kept = 0 => call.citation_score = 0
           /\ kept > 0 =>
                /\ call.citation_score * kept <= ScoreUnit * found
                /\ ScoreUnit * found < (call.citation_score + 1) * kept
           /\ (kept > 0 /\ found = kept) => call.citation_score = ScoreUnit

\* C27 witness: the answer quotes the phrase in upper case, a chunk holds it in
\* lower case, and the citation score is 1.0
C27_Witness ==
    /\ call.scorer = "citation"
    /\ call.answer = <<Quote("double")>> \o Phrase(TRUE) \o <<Quote("double")>>
    /\ call.chunks = <<Phrase(FALSE)>>
    /\ call.citation_score = ScoreUnit

(***************************************************************************)
(* Properties of the rate limiting middleware (RateLimitSpec)              *)
(***************************************************************************)

\* every limiter the middleware holds
Limiters ==
    {mw.global_limiter} \cup
    {mw.tenant_limiters[k] : k \in DOMAIN mw.tenant_limiters}

\* the token count of a limiter refilled up to the tick now
Refilled(l, now) == Min(l.burst * Token, l.tokens + (now - l.last_update) * l.rate)

\* the tokens a request of the tenant with this slug finds in the tenant's
\* limiter: the refilled count, a full bucket when the limiter is not created
Available(m, slug) ==
    IF slug \in DOMAIN m.tenant_limiters
    THEN Refilled(m.tenant_limiters[slug], m.clock)
    ELSE m.default_rate * Token

\* 0 <= tokens <= burst in every limiter
BucketBounds == \A l \in Limiters : 0 <= l.tokens /\ l.tokens <= l.burst * Token

\* a request that is rate limited: allowed exactly when the refilled count of
\* the limiter it is checked against is at least one token; allowed, one token
\* is consumed and retry_after is 0; refused, none is consumed and retry_after
\* is greater than 0
BucketLaw ==
    \A request \in Requests :
        (Dispatch(request) /\ request.path \notin SkippedPaths) =>
            LET id == get_tenant_id_from_request(request)
                before == IF id # Absent THEN get_limiter_for_tenant(mw, id)
                          ELSE mw.global_limiter
                after == IF id # Absent THEN mw'.tenant_limiters[id]
                         ELSE mw'.global_limiter
                refilled == Refilled(before, mw.clock)
                allowed == mw'.response.status = "next"
            IN /\ allowed <=> refilled >= Token
               /\ allowed => /\ after.tokens = refilled - Token
                             /\ mw'.response.retry_after.num = 0
               /\ ~allowed => /\ after.tokens = refilled
                              /\ mw'.response.retry_after.num > 0
                              /\ mw'.response.retry_after.den > 0

\* a request of one tenant leaves the tokens of every other tenant's limiter
TenantIsolation ==
    \A request \in Requests :
        Dispatch(request) =>
            \A t \in Tenants \ {request.tenant} :
                Available(mw', SlugOf(t)) >= Available(mw, SlugOf(t))

\* C30: after any sequence of allow_request calls at non-decreasing times,
\* 0 <= tokens <= burst; a call is allowed exactly when the refilled token
\* count is at least 1 and then consumes exactly one token with retry_after 0;
\* a refused call consumes no token and returns a retry_after greater than 0;
\* in the middleware a request of one tenant never consumes a token of another
\* tenant's limiter.
C30_RateLimiter ==
    [][BucketBounds /\ BucketBounds' /\ BucketLaw /\ TenantIsolation]_vars

====
